---- MODULE Spec2Model ----
(***************************************************************************)
(* article-summarizer-jp: content acquisition (fetchContent, the PDF path, *)
(* the two-tier HTML fetch), HTML text extraction and cleaning, and the    *)
(* orchestration around them (batch loop, watch-mode queue).               *)
(*                                                                         *)
(* Strings are sequences of UTF-16 code units; a code unit is a one-       *)
(* character string for ASCII and "U+XXXX" for anything else.              *)
(***************************************************************************)
EXTENDS Integers, Sequences, FiniteSets, TLC

(***************************************************************************)
(* Strings                                                                 *)
(***************************************************************************)

NL == "\n"

\* The white space of String.prototype.trim and of \s that occurs in the inputs.
WhiteSpace == { " ", "\t", "\n", "\r", "U+00A0", "U+3000" }

Digits == { "0", "1", "2", "3", "4", "5", "6", "7", "8", "9" }

UpperCase ==
  << "A", "B", "C", "D", "E", "F", "G", "H", "I", "J", "K", "L", "M",
     "N", "O", "P", "Q", "R", "S", "T", "U", "V", "W", "X", "Y", "Z" >>

LowerCase ==
  << "a", "b", "c", "d", "e", "f", "g", "h", "i", "j", "k", "l", "m",
     "n", "o", "p", "q", "r", "s", "t", "u", "v", "w", "x", "y", "z" >>

\* String.prototype.toLowerCase, one code unit.
toLowerCase(c) ==
  IF \E i \in 1..26 : UpperCase[i] = c
    THEN LowerCase[CHOOSE i \in 1..26 : UpperCase[i] = c]
    ELSE c

\* String.prototype.trim
trim(s) ==
  LET keep == { i \in 1..Len(s) : s[i] \notin WhiteSpace }
  IN  IF keep = {} THEN << >>
      ELSE SubSeq(s, CHOOSE i \in keep : \A j \in keep : i <= j,
                     CHOOSE i \in keep : \A j \in keep : i >= j)

\* String.prototype.split('\n')
split(s) ==
  LET cut  == { i \in 1..Len(s) : s[i] = NL }
      n    == Cardinality(cut)
      at(k) == IF k = 0 THEN 0
               ELSE IF k = n + 1 THEN Len(s) + 1
               ELSE CHOOSE p \in cut : Cardinality({ q \in cut : q < p }) = k - 1
  IN  [ k \in 1..(n + 1) |-> SubSeq(s, at(k - 1) + 1, at(k) - 1) ]

\* Array.prototype.join
RECURSIVE join(_, _)
join(lines, sep) ==
  IF lines = << >> THEN << >>
  ELSE IF Len(lines) = 1 THEN lines[1]
  ELSE lines[1] \o sep \o join(Tail(lines), sep)

\* A regular expression /^(w1|w2|...)/i : the line starts with one of the words.
StartsWithAny(line, words) ==
  \E w \in words :
    /\ Len(w) <= Len(line)
    /\ \A i \in 1..Len(w) : toLowerCase(line[i]) = w[i]

\* String.prototype.includes
includes(s, w) ==
  \E i \in 0..(Len(s) - Len(w)) : SubSeq(s, i + 1, i + Len(w)) = w

\* String.prototype.endsWith
endsWith(s, w) ==
  Len(w) <= Len(s) /\ SubSeq(s, Len(s) - Len(w) + 1, Len(s)) = w

(***************************************************************************)
(* extractor.ts: cleanExtractedContent                                     *)
(***************************************************************************)

minLineLength == 10
maxRepeatedChars == 5
longLineThreshold == 100

\* The alternatives of the prefix patterns of excludePatterns (lower case),
\* one row per regular expression.
excludePrefixes ==
  {
    <<"a", "d", "v", "e", "r", "t", "i", "s", "e", "m", "e", "n", "t">>, <<"a", "d">>, <<"s", "p", "o", "n", "s", "o", "r", "e", "d">>, <<"U+95A2", "U+9023", "U+8A18", "U+4E8B">>, <<"U+5E83", "U+544A">>, <<"p", "r">>, <<"U+30D7", "U+30ED", "U+30E2", "U+30FC", "U+30B7", "U+30E7", "U+30F3">>,
    <<"s", "h", "a", "r", "e">>, <<"U+30B7", "U+30A7", "U+30A2">>, <<"t", "w", "e", "e", "t">>, <<"U+30C4", "U+30A4", "U+30FC", "U+30C8">>, <<"f", "a", "c", "e", "b", "o", "o", "k">>, <<"l", "i", "n", "e">>,
    <<"c", "o", "o", "k", "i", "e">>, <<"U+30AF", "U+30C3", "U+30AD", "U+30FC">>, <<"p", "r", "i", "v", "a", "c", "y">>, <<"U+30D7", "U+30E9", "U+30A4", "U+30D0", "U+30B7", "U+30FC">>, <<"U+5229", "U+7528", "U+898F", "U+7D04">>, <<"t", "e", "r", "m", "s">>,
    <<"s", "u", "b", "s", "c", "r", "i", "b", "e">>, <<"U+767B", "U+9332">>, <<"n", "e", "w", "s", "l", "e", "t", "t", "e", "r">>, <<"U+30E1", "U+30EB", "U+30DE", "U+30AC">>,
    <<"f", "o", "l", "l", "o", "w">>, <<"U+30D5", "U+30A9", "U+30ED", "U+30FC">>, <<"s", "o", "c", "i", "a", "l">>, <<"s", "n", "s">>,
    <<"U+305D", "U+306E", "U+4ED6", "U+306E", "U+30CB", "U+30E5", "U+30FC", "U+30B9">>, <<"U+95A2", "U+9023", "U+8A18", "U+4E8B">>,
    <<"n", "a", "v", "i", "g", "a", "t", "i", "o", "n">>, <<"U+30CA", "U+30D3", "U+30B2", "U+30FC", "U+30B7", "U+30E7", "U+30F3">>, <<"m", "e", "n", "u">>, <<"U+30E1", "U+30CB", "U+30E5", "U+30FC">>,
    <<"c", "a", "t", "e", "g", "o", "r", "y">>, <<"U+30AB", "U+30C6", "U+30B4", "U+30EA">>, <<"t", "a", "g">>, <<"U+30BF", "U+30B0">>,
    <<"d", "a", "t", "e">>, <<"U+65E5", "U+6642">>, <<"t", "i", "m", "e">>, <<"p", "u", "b", "l", "i", "s", "h", "e", "d">>, <<"U+6295", "U+7A3F", "U+65E5">>,
    <<"a", "u", "t", "h", "o", "r">>, <<"U+8457", "U+8005">>, <<"w", "r", "i", "t", "e", "r">>, <<"U+7B46", "U+8005">>,
    <<"s", "o", "u", "r", "c", "e">>, <<"U+51FA", "U+5178">>, <<"v", "i", "a">>, <<"U+5F15", "U+7528", "U+5143">>,
    <<"U+7D9A", "U+304D", "U+3092", "U+8AAD", "U+3080">>, <<"U+3082", "U+3063", "U+3068", "U+898B", "U+308B">>,
    <<"U+623B", "U+308B">>, <<"U+30C8", "U+30C3", "U+30D7", "U+306B", "U+623B", "U+308B">>
  }

\* /^(more\s+(news|articles)|...)/i, /^(read\s+more|...)/i, /^(back\s+to|...)/i :
\* a first word, at least one white space, a second word.
MatchesSpacedPhrase(line) ==
  LET phrases ==
        { << <<"m","o","r","e">>, <<"n","e","w","s">> >>,
          << <<"m","o","r","e">>, <<"a","r","t","i","c","l","e","s">> >>,
          << <<"r","e","a","d">>, <<"m","o","r","e">> >>,
          << <<"b","a","c","k">>, <<"t","o">> >> }
  IN  \E ph \in phrases :
        /\ StartsWithAny(line, { ph[1] })
        /\ \E k \in 1..(Len(line) - Len(ph[1])) :
             /\ \A i \in 1..k : line[Len(ph[1]) + i] \in WhiteSpace
             /\ StartsWithAny(SubSeq(line, Len(ph[1]) + k + 1, Len(line)), { ph[2] })

\* /^\d{4}[-\/U+5E74]\d{1,2}[-\/U+6708]\d{1,2}/
MatchesDatePattern(line) ==
  \E a \in 1..2 :
    /\ Len(line) >= 4 + 1 + a + 1 + 1
    /\ \A i \in 1..4 : line[i] \in Digits
    /\ line[5] \in { "-", "/", "U+5E74" }
    /\ \A i \in 1..a : line[5 + i] \in Digits
    /\ line[6 + a] \in { "-", "/", "U+6708" }
    /\ line[7 + a] \in Digits

\* /^[\d\s\-\/U+5E74 U+6708 U+65E5 U+6642 U+5206 U+79D2:]+$/
MatchesDateOnly(line) ==
  /\ Len(line) > 0
  /\ \A i \in 1..Len(line) :
       line[i] \in Digits \cup WhiteSpace \cup
         { "-", "/", "U+5E74", "U+6708", "U+65E5", "U+6642", "U+5206", "U+79D2", ":" }

\* excludePatterns.some((pattern) => pattern.test(line))
MatchesExcludePattern(line) ==
  \/ StartsWithAny(line, excludePrefixes)
  \/ MatchesSpacedPhrase(line)
  \/ MatchesDatePattern(line)
  \/ MatchesDateOnly(line)
  \/ \A i \in 1..Len(line) : line[i] \in WhiteSpace

\* The alternatives of the two prefix patterns of uiPatterns (lower case).
uiPrefixes ==
  {
    <<"c", "l", "i", "c", "k">>, <<"U+30AF", "U+30EA", "U+30C3", "U+30AF">>, <<"t", "a", "p">>, <<"U+30BF", "U+30C3", "U+30D7">>, <<"p", "r", "e", "s", "s">>, <<"U+30D7", "U+30EC", "U+30B9">>,
    <<"h", "e", "r", "e">>, <<"U+3053", "U+3061", "U+3089">>, <<"U+3053", "U+3053">>, <<"a", "b", "o", "v", "e">>, <<"b", "e", "l", "o", "w">>, <<"U+4E0A", "U+8A18">>, <<"U+4E0B", "U+8A18">>
  }

\* /^[ \s]*[cls]+[ \s]*$/ : a non-empty run of the class, white space around it.
IsSymbolRun(line, cls) ==
  \E a \in 1..Len(line) : \E b \in a..Len(line) :
    /\ \A i \in 1..(a - 1) : line[i] \in WhiteSpace
    /\ \A i \in a..b : line[i] \in cls
    /\ \A i \in (b + 1)..Len(line) : line[i] \in WhiteSpace

isLikelyUIElement(line) ==
  \/ /\ Len(line) > 0
     /\ \A i \in 1..Len(line) :
          line[i] \in { "<", ">", "U+00AB", "U+00BB", "U+2039", "U+203A",
                        "[", "]", "(", ")", "{", "}" }
  \/ /\ Len(line) > 0
     /\ \A i \in 1..Len(line) :
          line[i] \in Digits \cup WhiteSpace \cup { "-", "+", "*", "." }
  \/ IsSymbolRun(line, { "U+25BC", "U+25B2", "U+25BA", "U+25C4", "U+25B3", "U+25BD" })
  \/ IsSymbolRun(line, { "U+25A0", "U+25A1", "U+25CF", "U+25CB",
                         "U+25C6", "U+25C7", "U+2605", "U+2606" })
  \/ StartsWithAny(line, uiPrefixes)

\* The inner loop of hasRepeatedChars: the number of j >= from with
\* text[j] = text[i], stopping at the first difference (1-based indices).
RECURSIVE RunAfter(_, _, _)
RunAfter(text, i, from) ==
  IF from <= Len(text) /\ text[from] = text[i]
    THEN 1 + RunAfter(text, i, from + 1)
    ELSE 0

\* hasRepeatedChars with the outer loop stopping one position early.
hasRepeatedCharsStopsEarly(text, maxRepeated) ==
  \E i \in 1..(Len(text) - maxRepeated - 1) :
    1 + RunAfter(text, i, i + 1) > maxRepeated

\* for (let i = 0; i < text.length - maxRepeated; i++) ... (1-based here)
hasRepeatedChars(text, maxRepeated) ==
  \E i \in 1..(Len(text) - maxRepeated) :
    1 + RunAfter(text, i, i + 1) > maxRepeated

\* KeepsLine without the length test of lines 194-197.
KeepsLineAnyLength(line) ==
  /\ ~ (Len(line) < longLineThreshold /\ hasRepeatedChars(line, maxRepeatedChars))
  /\ ~ MatchesExcludePattern(line)
  /\ ~ isLikelyUIElement(line)

\* The body of the for loop of cleanExtractedContent: the line is pushed.
KeepsLine(line) ==
  /\ ~ (Len(line) < minLineLength)
  /\ ~ (Len(line) < longLineThreshold /\ hasRepeatedChars(line, maxRepeatedChars))
  /\ ~ MatchesExcludePattern(line)
  /\ ~ isLikelyUIElement(line)

NonEmpty(line) == Len(line) > 0

\* cleanExtractedContent with the lines trimmed when pushed, not before the
\* filters (the map of line 155 moved into the loop).
cleanExtractedContentTrimLast(content) ==
  LET raw   == split(content)
      lines == SelectSeq(raw, LAMBDA line : Len(trim(line)) > 0)
      kept  == SelectSeq(lines, KeepsLine)
  IN  join([ k \in 1..Len(kept) |-> trim(kept[k]) ], << NL, NL >>)

cleanExtractedContent(content) ==
  LET raw     == split(content)
      trimmed == [ k \in 1..Len(raw) |-> trim(raw[k]) ]
      lines   == SelectSeq(trimmed, NonEmpty)
  IN  join(SelectSeq(lines, KeepsLine), << NL, NL >>)

(***************************************************************************)
(* extractor.ts: the parsed document, extractArticleHtml, extractTextContent *)
(*                                                                         *)
(* A document is what the DOM queries of the extractor see of it:          *)
(*   readability : the outcome of extract(html) of article-extractor,      *)
(*                 [outcome, title, contentLength, text] where text is the *)
(*                 textContent of the body parsed from article.content;    *)
(*   titleTag, h1, ogTitle : the three title sources (an element record);  *)
(*   regions     : selector -> first matching element, scripts removed;    *)
(*   paragraphs  : the textContent of the <p> elements, in document order; *)
(*   body        : document.body;                                          *)
(*   markup      : selector -> length of the innerHTML of the first match  *)
(*                 in the pruned document, "body" included (-1: no match). *)
(***************************************************************************)

NoElement == [ present |-> FALSE, text |-> << >> ]

Element(t) == [ present |-> TRUE, text |-> t ]

\* JavaScript truthiness of element?.textContent
Truthy(e) == e.present /\ e.text # << >>

Untitled == << "U", "n", "t", "i", "t", "l", "e", "d" >>

contentSelectors ==
  << "article", "main", "[role=main]", ".main-content", ".content", "#content",
     ".post-content", ".entry-content", ".article-body", ".story-body",
     ".body__inner-container", "[class*=BodyWrapper]", "[class*=article__body]",
     "[class*=ArticleBody]" >>

\* The index of the first selector of contentSelectors that is in ok, 0 if none.
FirstSelector(ok) ==
  IF \E k \in 1..Len(contentSelectors) : contentSelectors[k] \in ok
    THEN CHOOSE k \in 1..Len(contentSelectors) :
           /\ contentSelectors[k] \in ok
           /\ \A j \in 1..(k - 1) : contentSelectors[j] \notin ok
    ELSE 0

\* The fragment returned is named by the document and the part it was cut from.
extractArticleHtml(doc) ==
  LET ok == { sel \in DOMAIN doc.regions : doc.markup[sel] > 0 /\ doc.markup[sel] > 100 }
      k  == FirstSelector(ok)
  IN  IF k > 0 THEN [ doc |-> doc.id, part |-> contentSelectors[k] ]
      ELSE IF doc.markup["body"] > 0 THEN [ doc |-> doc.id, part |-> "body" ]
      ELSE [ doc |-> doc.id, part |-> "html" ]

\* Lines 256-296: the readability strategy is taken.
ReadabilityAccepted(doc) ==
  /\ doc.readability.outcome = "article"
  /\ doc.readability.contentLength > 0
  /\ doc.readability.contentLength > 100
  /\ Len(cleanExtractedContent(doc.readability.text)) > 100

\* Lines 306-311: the title of the fallback path, before the final trim.
FallbackTitle(doc) ==
  IF Truthy(doc.titleTag) THEN doc.titleTag.text
  ELSE IF Truthy(doc.h1) THEN doc.h1.text
  ELSE IF Truthy(doc.ogTitle) THEN doc.ogTitle.text
  ELSE Untitled

\* Lines 336-347: the text of the first qualifying content region, '' if none.
RegionContent(doc) ==
  LET ok == { sel \in DOMAIN doc.regions :
                /\ Truthy(doc.regions[sel])
                /\ Len(trim(doc.regions[sel].text)) > 100 }
      k  == FirstSelector(ok)
  IN  IF k > 0 THEN doc.regions[contentSelectors[k]].text ELSE << >>

\* Lines 354-361: the trimmed paragraph texts longer than 20.
LongParagraph(t) == Len(t) > 20

ParagraphTexts(doc) ==
  SelectSeq([ k \in 1..Len(doc.paragraphs) |-> trim(doc.paragraphs[k]) ], LongParagraph)

\* FallbackContent with the paragraph scrape not guarded by line 350.
FallbackContentParagraphsFirst(doc) ==
  LET c1 == RegionContent(doc)
      c2 == IF ParagraphTexts(doc) # << >>
              THEN join(ParagraphTexts(doc), << NL, NL >>)
              ELSE c1
  IN  IF c2 = << >>
        THEN (IF Truthy(doc.body) THEN doc.body.text ELSE << >>)
        ELSE c2

\* Lines 336-376: the text handed to the cleaner on the fallback path.
FallbackContent(doc) ==
  LET c1 == RegionContent(doc)
      c2 == IF (c1 = << >> \/ Len(trim(c1)) < 100) /\ ParagraphTexts(doc) # << >>
              THEN join(ParagraphTexts(doc), << NL, NL >>)
              ELSE c1
  IN  IF c2 = << >>
        THEN (IF Truthy(doc.body) THEN doc.body.text ELSE << >>)
        ELSE c2

extractTextContent(doc) ==
  IF ReadabilityAccepted(doc)
    THEN [ title   |-> IF doc.readability.title # << >>
                         THEN doc.readability.title ELSE Untitled,
           content |-> trim(cleanExtractedContent(doc.readability.text)),
           htmlContent |-> extractArticleHtml(doc) ]
    ELSE [ title   |-> trim(FallbackTitle(doc)),
           content |-> trim(cleanExtractedContent(FallbackContent(doc))),
           htmlContent |-> extractArticleHtml(doc) ]

(***************************************************************************)
(* fetcher.ts: URL classification and the PDF text                         *)
(*                                                                         *)
(* A URL string is given with the result of new URL(url): valid, and for a *)
(* valid one hostname and pathname (URL lower-cases the host name); raw is *)
(* the string itself, which only the catch branch of isPdfUrl reads.       *)
(***************************************************************************)

DotPdf == << ".", "p", "d", "f" >>

\* isPdfUrl without the toLowerCase of line 18.
isPdfUrlCaseSensitive(url) ==
  IF url.valid
    THEN \/ endsWith(url.pathname, DotPdf)
         \/ url.hostname = "arxiv.org"
              /\ includes(url.pathname, << "/", "p", "d", "f", "/" >>)
    ELSE \E i \in 0..(Len(url.raw) - 4) :
           /\ SubSeq(url.raw, i + 1, i + 4) = DotPdf
           /\ (i + 4 = Len(url.raw) \/ url.raw[i + 5] \in { "?", "#" })

isPdfUrl(url) ==
  IF url.valid
    THEN \/ endsWith([ i \in 1..Len(url.pathname) |-> toLowerCase(url.pathname[i]) ], DotPdf)
         \/ url.hostname = "arxiv.org"
              /\ includes(url.pathname, << "/", "p", "d", "f", "/" >>)
    ELSE LET low == [ i \in 1..Len(url.raw) |-> toLowerCase(url.raw[i]) ]
         IN  \E i \in 0..(Len(low) - 4) :
               /\ SubSeq(low, i + 1, i + 4) = DotPdf
               /\ (i + 4 = Len(low) \/ low[i + 5] \in { "?", "#" })

\* decodeURIComponent on the escapes that occur in the inputs; Malformed when
\* a % is not followed by an escape (URIError).
Malformed == << "URIError" >>

RECURSIVE decodeURIComponent(_)
decodeURIComponent(t) ==
  IF t = << >> THEN << >>
  ELSE IF Head(t) # "%"
    THEN LET rest == decodeURIComponent(Tail(t))
         IN  IF rest = Malformed THEN Malformed ELSE << Head(t) >> \o rest
  ELSE IF Len(t) >= 6 /\ SubSeq(t, 1, 6) = << "%", "C", "2", "%", "A", "9" >>
    THEN LET rest == decodeURIComponent(SubSeq(t, 7, Len(t)))
         IN  IF rest = Malformed THEN Malformed ELSE << "U+00A9" >> \o rest
  ELSE IF Len(t) >= 3 /\ SubSeq(t, 2, 3) \in { << "2", "0" >>, << "2", "5" >>, << "0", "A" >> }
    THEN LET c    == IF SubSeq(t, 2, 3) = << "2", "0" >> THEN " "
                     ELSE IF SubSeq(t, 2, 3) = << "2", "5" >> THEN "%" ELSE NL
             rest == decodeURIComponent(SubSeq(t, 4, Len(t)))
         IN  IF rest = Malformed THEN Malformed ELSE << c >> \o rest
  ELSE Malformed

\* Lines 83-102. pdfData is [Pages |-> sequence of pages]; a page is
\* [Texts |-> BOOLEAN, runs |-> the T of the runs of its text items in order].
\* The value is the content string, or Malformed when a decode throws.
RECURSIVE PageRuns(_)
PageRuns(runs) ==
  IF runs = << >> THEN << >>
  ELSE LET rest == PageRuns(Tail(runs))
           d    == decodeURIComponent(Head(runs))
       IN  IF Head(runs) = << >> THEN rest
           ELSE IF d = Malformed \/ rest = Malformed THEN Malformed
           ELSE d \o << " " >> \o rest

RECURSIVE PdfContent(_)
PdfContent(pages) ==
  IF pages = << >> THEN << >>
  ELSE LET rest == PdfContent(Tail(pages))
           here == IF Head(pages).Texts THEN PageRuns(Head(pages).runs) ELSE << >>
       IN  IF here = Malformed \/ rest = Malformed THEN Malformed
           ELSE IF Head(pages).Texts THEN here \o << NL >> \o rest
           ELSE rest

TITLE_SEARCH_LINES == 10
MIN_TITLE_LENGTH == 10
MAX_TITLE_LENGTH == 200

NonBlank(line) == Len(trim(line)) > 0

\* The test of one line in extractTitleFromPdfText, on the trimmed line.
IsTitleLine(trimmed) ==
  /\ Len(trimmed) > MIN_TITLE_LENGTH /\ Len(trimmed) < MAX_TITLE_LENGTH
  /\ ~ (\A i \in 1..Len(trimmed) : trimmed[i] \in Digits)
  /\ ~ includes(trimmed, << "P", "a", "g", "e", " " >>)
  /\ ~ includes(trimmed, << "U+00A9" >>)

\* null is the empty string here: no title line is empty.
extractTitleFromPdfText(text) ==
  LET lines == SelectSeq(split(text), NonBlank)
      first == SubSeq(lines, 1, IF Len(lines) < TITLE_SEARCH_LINES
                                  THEN Len(lines) ELSE TITLE_SEARCH_LINES)
      hits  == { k \in 1..Len(first) : IsTitleLine(trim(first[k])) }
  IN  IF hits = {} THEN << >>
      ELSE trim(first[CHOOSE k \in hits : \A j \in hits : k <= j])

PdfDocument == << "P", "D", "F", " ", "D", "o", "c", "u", "m", "e", "n", "t" >>

\* Lines 104-114: the value the dataReady handler resolves with.
PdfResult(pdf, u) ==
  LET content == PdfContent(pdf.Pages)
      t       == extractTitleFromPdfText(content)
  IN  [ title        |-> IF t # << >> THEN t ELSE PdfDocument,
        content      |-> trim(content),
        extractedUrl |-> u.id,
        htmlContent  |-> [ doc |-> pdf.id, part |-> "pdf-wrapper" ] ]

(***************************************************************************)
(* Inputs: the texts, documents, PDFs and URLs the operations are run on   *)
(***************************************************************************)

\* A line of n characters that the cleaner keeps when n >= 10: tag, then
\* "quizes" repeated.
Prose(tag, n) ==
  [ i \in 1..n |-> IF i = 1 THEN tag
                   ELSE << "q", "u", "i", "z", "e", "s" >>[((i - 2) % 6) + 1] ]

\* k lines of n characters, separated by sep.
RECURSIVE Paragraphs(_, _, _, _)
Paragraphs(tag, k, n, sep) ==
  IF k = 1 THEN Prose(tag, n)
  ELSE Prose(tag, n) \o sep \o Paragraphs(tag, k - 1, n, sep)

\* The documents.
Docs ==
  LET
      NoRegions == [ sel \in { contentSelectors[k] : k \in 1..Len(contentSelectors) } |-> NoElement ]

      NoMarkup ==
        [ sel \in { contentSelectors[k] : k \in 1..Len(contentSelectors) } \cup { "body" } |-> -1 ]

      NoReadability == [ outcome |-> "null", title |-> << >>, contentLength |-> 0, text |-> << >> ]

      TitleA == << "T", "h", "e", " ", "Q", "u", "i", "z", " ", "T", "i", "t", "l", "e" >>
      TitleApp == << "A", "p", "p" >>
      MenuLine == << "M", "e", "n", "u" >>
      HomeLine == << "H", "o", "m", "e" >>
      AdLine == << "A", "d", "v", "e", "r", "t", "i", "s", "e", "m", "e", "n", "t" >>

      \* A server-rendered article: readability succeeds, 3 paragraphs of 120.
      DocStatic ==
        [ id |-> "static",
          readability |-> [ outcome |-> "article", title |-> TitleA, contentLength |-> 900,
                            text |-> Paragraphs("S", 3, 120, << NL >>) ],
          titleTag |-> Element(TitleA), h1 |-> Element(TitleA), ogTitle |-> NoElement,
          regions |-> [ NoRegions EXCEPT !["article"] = Element(Paragraphs("S", 3, 120, << NL >>)) ],
          paragraphs |-> << Prose("S", 120), Prose("S", 120), Prose("S", 120) >>,
          body |-> Element(MenuLine \o << NL >> \o Paragraphs("S", 3, 120, << NL >>)),
          markup |-> [ NoMarkup EXCEPT !["article"] = 900, !["body"] = 1500 ] ]

      \* The shell of a client-rendered page: 40 characters of text in the body.
      DocShell40 ==
        [ id |-> "shell40",
          readability |-> NoReadability,
          titleTag |-> Element(TitleApp), h1 |-> NoElement, ogTitle |-> NoElement,
          regions |-> NoRegions, paragraphs |-> << >>,
          body |-> Element(Prose("L", 40)),
          markup |-> [ NoMarkup EXCEPT !["body"] = 80 ] ]

      \* The rendered page: readability throws, the article cleans to 500 characters.
      DocRendered500 ==
        [ id |-> "rendered500",
          readability |-> [ NoReadability EXCEPT !.outcome = "throws" ],
          titleTag |-> Element(TitleApp), h1 |-> Element(TitleA), ogTitle |-> NoElement,
          regions |-> [ NoRegions EXCEPT !["article"] =
                          Element(<< " ", NL >> \o Paragraphs("R", 2, 125, << NL >>) \o << NL >>
                                  \o Paragraphs("R", 2, 122, << NL, " ", NL >>) \o << NL >>) ],
          paragraphs |-> << Prose("R", 125), Prose("R", 125), Prose("R", 122), Prose("R", 122) >>,
          body |-> Element(Paragraphs("R", 2, 125, << NL >>) \o << NL >>
                           \o Paragraphs("R", 2, 122, << NL >>)),
          markup |-> [ NoMarkup EXCEPT !["article"] = 800, !["body"] = 1200 ] ]

      \* An article whose text is longer than 100 and cleans to exactly 100.
      DocEdge100 ==
        [ id |-> "edge100",
          readability |-> NoReadability,
          titleTag |-> Element(TitleA), h1 |-> NoElement, ogTitle |-> NoElement,
          regions |-> [ NoRegions EXCEPT !["article"] =
                          Element(MenuLine \o << NL >> \o Prose("E", 100) \o << NL >> \o HomeLine) ],
          paragraphs |-> << >>,
          body |-> Element(MenuLine \o << NL >> \o Prose("E", 100) \o << NL >> \o HomeLine),
          markup |-> [ NoMarkup EXCEPT !["article"] = 300, !["body"] = 400 ] ]

      \* As DocEdge100, one character more.
      DocEdge101 ==
        [ id |-> "edge101",
          readability |-> NoReadability,
          titleTag |-> Element(TitleA), h1 |-> NoElement, ogTitle |-> NoElement,
          regions |-> [ NoRegions EXCEPT !["article"] =
                          Element(MenuLine \o << NL >> \o Prose("F", 101) \o << NL >> \o HomeLine) ],
          paragraphs |-> << >>,
          body |-> Element(MenuLine \o << NL >> \o Prose("F", 101) \o << NL >> \o HomeLine),
          markup |-> [ NoMarkup EXCEPT !["article"] = 300, !["body"] = 400 ] ]

      \* An article of exactly 100 characters of text, in one paragraph.
      DocArticle100 ==
        [ id |-> "article100",
          readability |-> NoReadability,
          titleTag |-> NoElement, h1 |-> Element(TitleA), ogTitle |-> NoElement,
          regions |-> [ NoRegions EXCEPT !["article"] = Element(Prose("A", 100)) ],
          paragraphs |-> << Prose("A", 100) >>,
          body |-> Element(Prose("A", 100)),
          markup |-> [ NoMarkup EXCEPT !["article"] = 120, !["body"] = 200 ] ]

      \* An article of 15 short lines (a link list): 134 characters, none kept.
      DocShortLines ==
        [ id |-> "shortlines",
          readability |-> [ outcome |-> "article", title |-> << >>, contentLength |-> 400,
                            text |-> Paragraphs("T", 15, 8, << NL >>) ],
          titleTag |-> NoElement, h1 |-> NoElement, ogTitle |-> Element(TitleA),
          regions |-> [ NoRegions EXCEPT !["article"] = Element(Paragraphs("T", 15, 8, << NL >>)) ],
          paragraphs |-> << >>,
          body |-> Element(Paragraphs("T", 15, 8, << NL >>)),
          markup |-> [ NoMarkup EXCEPT !["article"] = 400, !["body"] = 500 ] ]

      \* No content region; three paragraphs of 50 and a short one.
      DocParagraphs ==
        [ id |-> "paragraphs",
          readability |-> [ NoReadability EXCEPT !.outcome = "throws" ],
          titleTag |-> Element(TitleA), h1 |-> NoElement, ogTitle |-> NoElement,
          regions |-> NoRegions,
          paragraphs |-> << Prose("P", 50), HomeLine, Prose("P", 50), Prose("P", 50) >>,
          body |-> Element(MenuLine \o << NL >> \o Paragraphs("P", 3, 50, << NL >>)),
          markup |-> [ NoMarkup EXCEPT !["body"] = 300 ] ]

      \* An empty document.
      DocEmpty ==
        [ id |-> "empty",
          readability |-> NoReadability,
          titleTag |-> NoElement, h1 |-> NoElement, ogTitle |-> NoElement,
          regions |-> NoRegions, paragraphs |-> << >>,
          body |-> Element(<< >>),
          markup |-> NoMarkup ]

      \* readability returns a teaser of 92 characters; a short <article> precedes
      \* the text, which is in <main>.
      DocMain ==
        [ id |-> "main",
          readability |-> [ outcome |-> "article", title |-> TitleApp, contentLength |-> 300,
                            text |-> Paragraphs("a", 2, 45, << NL >>) ],
          titleTag |-> Element(<< " ", NL >> \o TitleA \o << " " >>), h1 |-> NoElement,
          ogTitle |-> NoElement,
          regions |-> [ NoRegions EXCEPT !["article"] = Element(Prose("M", 60)),
                                         !["main"] = Element(Prose("M", 60) \o << NL >>
                                                             \o Paragraphs("M", 2, 80, << NL, NL >>)) ],
          paragraphs |-> << Prose("M", 60), Prose("M", 80), Prose("M", 80) >>,
          body |-> Element(AdLine \o << NL >> \o Prose("M", 60) \o << NL >>
                           \o Paragraphs("M", 2, 80, << NL, NL >>)),
          markup |-> [ NoMarkup EXCEPT !["article"] = 90, !["main"] = 500, !["body"] = 700 ] ]

      \* An article of nine lines of 10 (98 characters, 106 once cleaned) in <div>s
      \* and one paragraph of 30 in the footer.
      DocCompact ==
        [ id |-> "compact",
          readability |-> NoReadability,
          titleTag |-> Element(TitleA), h1 |-> NoElement, ogTitle |-> NoElement,
          regions |-> [ NoRegions EXCEPT !["article"] = Element(Paragraphs("C", 9, 10, << NL >>)) ],
          paragraphs |-> << Prose("c", 30) >>,
          body |-> Element(Paragraphs("C", 9, 10, << NL >>) \o << NL >> \o Prose("c", 30)),
          markup |-> [ NoMarkup EXCEPT !["article"] = 250, !["body"] = 400 ] ]
  IN  { DocStatic, DocShell40, DocRendered500, DocEdge100, DocEdge101, DocArticle100,
    DocShortLines, DocParagraphs, DocEmpty, DocMain, DocCompact }

DocOf(id) == CHOOSE d \in Docs : d.id = id

DocIds == { d.id : d \in Docs }

\* The PDF payloads.
Pdfs ==
  LET
      \* A text PDF: a title line, a page-number line, a second page.
      PdfPaper ==
        [ id |-> "paper",
          Pages |-> << [ Texts |-> TRUE, runs |-> << << "A", "%", "2", "0", "S", "t", "u", "d", "y", "%", "2", "0", "o", "f", "%", "2", "0", "Q", "u", "i", "z", "z", "e", "s" >>, << >>, << "W", "e", "%", "2", "0", "s", "t", "u", "d", "y", "%", "2", "0", "1", "0", "0", "%", "2", "5", "%", "2", "0", "o", "f", "%", "2", "0", "t", "h", "e", "m", "." >> >> ],
                       [ Texts |-> FALSE, runs |-> << >> ],
                       [ Texts |-> TRUE, runs |-> << << "P", "a", "g", "e", "%", "2", "0", "1", "%", "2", "0", "%", "C", "2", "%", "A", "9", "%", "2", "0", "2", "0", "2", "4" >> >> ] >> ]

      \* A scanned PDF: two pages of images, no text run.
      PdfScanned ==
        [ id |-> "scanned",
          Pages |-> << [ Texts |-> TRUE, runs |-> << >> ], [ Texts |-> TRUE, runs |-> << >> ] >> ]

      \* A PDF without pages.
      PdfNoPages == [ id |-> "nopages", Pages |-> << >> ]

      \* A PDF with a text run that is not a valid URI component.
      PdfBadEscape ==
        [ id |-> "badescape",
          Pages |-> << [ Texts |-> TRUE, runs |-> << << "A", "%", "2", "0", "S", "t", "u", "d", "y", "%", "2", "0", "o", "f", "%", "2", "0", "Q", "u", "i", "z", "z", "e", "s" >>, << "1", "0", "0", "%" >> >> ] >> ]

      page(run) == [ Texts |-> TRUE, runs |-> << run >> ]

      \* A cover line of exactly 10 characters, then a line of 30.
      PdfTen ==
        [ id |-> "ten",
          Pages |-> << page(<< "Q", "u", "i", "z", "%", "2", "0", "B", "o", "o", "k" >>), page(Prose("N", 24)) >> ]

      \* A single line of exactly 200 characters, in eight runs.
      PdfTwoHundred ==
        [ id |-> "twohundred",
          Pages |-> << [ Texts |-> TRUE,
                         runs |-> [ k \in 1..8 |-> Prose("W", IF k = 8 THEN 25 ELSE 24) ] ] >> ]

      \* Nine pages that are a page number, an empty page among them, then
      \* the title as the tenth non-empty line.
      PdfDeep10 ==
        [ id |-> "deep10",
          Pages |-> [ k \in 1..11 |->
                        IF k = 4 THEN [ Texts |-> TRUE, runs |-> << >> ]
                        ELSE IF k = 11 THEN page(Prose("D", 24))
                        ELSE page(<< "7" >>) ] ]

      \* Ten pages that are a page number, then the title as the eleventh line.
      PdfDeep11 ==
        [ id |-> "deep11",
          Pages |-> [ k \in 1..11 |-> IF k = 11 THEN page(Prose("E", 24)) ELSE page(<< "7" >>) ] ]
  IN  { PdfPaper, PdfScanned, PdfNoPages, PdfBadEscape, PdfTen, PdfTwoHundred, PdfDeep10, PdfDeep11 }

PdfOf(id) == CHOOSE d \in Pdfs : d.id = id

PdfIds == { d.id : d \in Pdfs }

\* The URL arguments.
Urls ==
  LET
      \* https://example.com/article
      UrlArticle ==
        [ id |-> "article", valid |-> TRUE, hostname |-> "example.com",
          pathname |-> << "/", "a", "r", "t", "i", "c", "l", "e" >>, raw |-> << >> ]

      \* https://example.com/paper.pdf
      UrlPdf ==
        [ id |-> "pdf", valid |-> TRUE, hostname |-> "example.com",
          pathname |-> << "/", "p", "a", "p", "e", "r", ".", "p", "d", "f" >>, raw |-> << >> ]

      \* https://example.com/REPORT.PDF?v=2
      UrlUpperPdf ==
        [ id |-> "upper-pdf", valid |-> TRUE, hostname |-> "example.com",
          pathname |-> << "/", "R", "E", "P", "O", "R", "T", ".", "P", "D", "F" >>, raw |-> << >> ]

      \* https://arxiv.org/pdf/2401.00001
      UrlArxiv ==
        [ id |-> "arxiv", valid |-> TRUE, hostname |-> "arxiv.org",
          pathname |-> << "/", "p", "d", "f", "/", "2", "4", "0", "1", ".", "0", "0", "0", "0", "1" >>, raw |-> << >> ]

      \* https://example.com/view?file=a.pdf
      UrlViewer ==
        [ id |-> "viewer", valid |-> TRUE, hostname |-> "example.com",
          pathname |-> << "/", "v", "i", "e", "w" >>, raw |-> << >> ]

      \* "not a url"
      UrlGarbage ==
        [ id |-> "garbage", valid |-> FALSE, hostname |-> "", pathname |-> << >>,
          raw |-> << "n", "o", "t", " ", "a", " ", "u", "r", "l" >> ]

      \* "paper.pdf"
      UrlBarePdf ==
        [ id |-> "bare-pdf", valid |-> FALSE, hostname |-> "", pathname |-> << >>,
          raw |-> << "p", "a", "p", "e", "r", ".", "p", "d", "f" >> ]
  IN  { UrlArticle, UrlPdf, UrlUpperPdf, UrlArxiv, UrlViewer, UrlGarbage, UrlBarePdf }

\* What fetch() can answer: it throws, or a response with a status and a body.
Statuses == { 200, 404, 503 }

HtmlResponses ==
  { [ kind |-> "throws", status |-> 0, contentType |-> "none", body |-> "none" ] }
  \cup { [ kind |-> "response", status |-> st, contentType |-> "text/html", body |-> "none" ] :
           st \in Statuses \ { 200 } }
  \cup { [ kind |-> "response", status |-> 200, contentType |-> "text/html", body |-> d ] :
           d \in DocIds }

PdfResponses ==
  { [ kind |-> "throws", status |-> 0, contentType |-> "none", body |-> "none" ] }
  \cup { [ kind |-> "response", status |-> st, contentType |-> ct, body |-> "none" ] :
           st \in Statuses \ { 200 }, ct \in { "application/pdf", "text/html" } }
  \cup { [ kind |-> "response", status |-> 200, contentType |-> ct, body |-> d ] :
           d \in PdfIds \cup { "not-a-pdf" }, ct \in { "application/pdf", "text/html" } }

NoResponse == [ kind |-> "none", status |-> 0, contentType |-> "none", body |-> "none" ]

\* response.ok
Ok(response) == response.kind = "response" /\ response.status >= 200 /\ response.status <= 299

(***************************************************************************)
(* State                                                                   *)
(***************************************************************************)

VARIABLES
  \* one invocation of fetchContent(url)
  url,             \* the argument
  pc,              \* the await the invocation is at
  response,        \* what fetch() answered
  fallbackReason,  \* "", "fetch-error" or "insufficient"
  html,            \* the document last read ("none" before)
  tier1,           \* what extractTextContent returned in tier 1
  tier2,           \* what extractTextContent returned in tier 2
  browser,         \* "none", "open", "closed"
  completion,      \* how the try block of tier 2 was left, pending the finally
  outcome,         \* the promise fetchContent returned
  calls,           \* number of calls of fetch (HTML), fetch (PDF), launch, extractTextContent
  steps,           \* the tier-2 steps performed, in order
  \* main(): the batch loop of index.ts and the queue of startWatchMode
  mode,            \* "batch", or "watch" for options.watch
  urls,            \* batch: the URL arguments
  loopI,           \* batch: the loop variable i
  mainPc,          \* batch: "loop", "await" (Promise.all pending), "summary", "done"
  stage,           \* batch: index -> position of its pipeline
  results,         \* batch: the results array
  processingQueue, \* watch: the keys of the map
  waitingQueue,    \* watch: the waiting URLs
  running,         \* watch: URL -> position of its processUrl call
  \* overlapping invocations of fetchPdfContent and the process-wide console
  console,         \* method -> the function it is bound to now
  originals,       \* invocation -> the originalConsoleLog... it captured
  pdfPc,           \* invocation -> the await it is at
  \* one call of cleanExtractedContent, and a second one on its result
  text,            \* the argument
  cleanOnce,       \* the value returned
  cleanTwice,      \* the value returned for the value returned
  \* one call of extractTextContent
  document,        \* the argument
  extractPc,       \* "idle", "readability", "fallback", "done"
  extraction,      \* the promise returned
  \* one call of extractThumbnailFromHtml
  page,            \* the arguments html and baseUrl
  images,          \* allImages: [collected, list]
  thumbnail,       \* the value returned
  \* one call of saveToMarkdown
  title,           \* the argument translatedTitle
  datePrefix,      \* the argument datePrefix
  savePc,          \* "idle", "start", "shorten", "truncate", "name", "write", "done", "rejected"
  cleanTitle,      \* the variable cleanTitle
  shortened,       \* what shortenTitle resolved with
  filename         \* the constant filename

fetchVars ==
  << url, pc, response, fallbackReason, html, tier1, tier2, browser, completion, outcome, calls, steps >>

mainVars ==
  << mode, urls, loopI, mainPc, stage, results, processingQueue, waitingQueue, running >>

consoleVars == << console, originals, pdfPc >>

cleanVars == << text, cleanOnce, cleanTwice >>

extractVars == << document, extractPc, extraction >>

thumbVars == << page, images, thumbnail >>

saveVars == << title, datePrefix, savePc, cleanTitle, shortened, filename >>

callVars == << consoleVars, cleanVars, extractVars, thumbVars, saveVars >>

vars == << fetchVars, mainVars, callVars >>

NoExtract ==
  [ title |-> << >>, content |-> << >>, htmlContent |-> [ doc |-> "none", part |-> "none" ] ]

NoValue == [ title |-> << >>, content |-> << >>, extractedUrl |-> "none",
             htmlContent |-> [ doc |-> "none", part |-> "none" ] ]

Pending == [ kind |-> "pending", value |-> NoValue, error |-> "none" ]

Resolved(v) == [ kind |-> "resolved", value |-> v, error |-> "none" ]

Rejected(e) == [ kind |-> "rejected", value |-> NoValue, error |-> e ]

\* { title, content, extractedUrl: parsedUrl.toString(), htmlContent }
FetchResult(u, e) ==
  [ title |-> e.title, content |-> e.content, extractedUrl |-> u.id,
    htmlContent |-> e.htmlContent ]

NoCalls == [ get |-> 0, pdf |-> 0, launch |-> 0, extract |-> 0 ]

(***************************************************************************)
(* fetcher.ts: fetchContent                                                *)
(***************************************************************************)

\* ParseUrl without the try/catch of lines 149-153: classification first.
ParseUrlUnchecked ==
  /\ pc = "start"
  /\ pc' = IF isPdfUrl(url) THEN "pdf_fetch" ELSE "t1_fetch"
  /\ UNCHANGED << url, response, fallbackReason, html, tier1, tier2, browser, completion,
                  outcome, calls, steps >>
  /\ UNCHANGED << mainVars, callVars >>

\* Lines 147-161: validation and classification; no await before the branch.
ParseUrl ==
  /\ pc = "start"
  /\ IF ~ url.valid
       THEN pc' = "done" /\ outcome' = Rejected("Invalid URL provided")
       ELSE /\ pc' = IF isPdfUrl(url) THEN "pdf_fetch" ELSE "t1_fetch"
            /\ outcome' = outcome
  /\ UNCHANGED << url, response, fallbackReason, html, tier1, tier2, browser, completion, calls, steps >>
  /\ UNCHANGED << mainVars, callVars >>

\* PdfFetch with a failed download handed to the HTML path instead of thrown.
PdfFetchFallsBack(r) ==
  /\ pc = "pdf_fetch"
  /\ calls' = [ calls EXCEPT !.pdf = @ + 1 ]
  /\ response' = r
  /\ pc' = IF r.kind = "throws" \/ ~ Ok(r) THEN "t1_fetch" ELSE "pdf_parse"
  /\ html' = IF r.kind = "throws" \/ ~ Ok(r) THEN html ELSE r.body
  /\ UNCHANGED << url, fallbackReason, tier1, tier2, browser, completion, outcome, steps >>
  /\ UNCHANGED << mainVars, callVars >>

\* Lines 34-44: the download of fetchPdfContent.
PdfFetch(r) ==
  /\ pc = "pdf_fetch"
  /\ calls' = [ calls EXCEPT !.pdf = @ + 1 ]
  /\ response' = r
  /\ IF r.kind = "throws"
       THEN pc' = "done" /\ outcome' = Rejected("fetch failed") /\ html' = html
       ELSE IF ~ Ok(r)
         THEN pc' = "done" /\ outcome' = Rejected("HTTP error! status") /\ html' = html
         ELSE pc' = "pdf_parse" /\ outcome' = outcome /\ html' = r.body
  /\ UNCHANGED << url, fallbackReason, tier1, tier2, browser, completion, steps >>
  /\ UNCHANGED << mainVars, callVars >>

\* Lines 74-118: parseBuffer ends in pdfParser_dataError or pdfParser_dataReady.
PdfParse ==
  /\ pc = "pdf_parse"
  /\ pc' = "done"
  /\ outcome' =
       IF html \notin PdfIds
         THEN Rejected("PDF parsing error")
         ELSE IF PdfContent(PdfOf(html).Pages) = Malformed
           THEN Rejected("PDF text extraction error")
           ELSE Resolved(PdfResult(PdfOf(html), url))
  /\ UNCHANGED << url, response, fallbackReason, html, tier1, tier2, browser, completion, calls, steps >>
  /\ UNCHANGED << mainVars, callVars >>

\* Tier 1 without its catch: the error of the GET rejects the call.
Tier1Uncaught ==
  /\ fallbackReason' = fallbackReason
  /\ pc' = "done"
  /\ outcome' = Rejected("HTTP error! status")

\* Lines 195-197: the catch of tier 1.
Tier1Caught ==
  /\ fallbackReason' = "fetch-error"
  /\ pc' = "launch"
  /\ outcome' = outcome

\* Lines 166-180: the lightweight GET.
Tier1Fetch(r) ==
  /\ pc = "t1_fetch"
  /\ calls' = [ calls EXCEPT !.get = @ + 1 ]
  /\ response' = r
  /\ IF r.kind = "throws" \/ ~ Ok(r)
       THEN Tier1Caught /\ html' = html
       ELSE /\ pc' = "t1_extract"
            /\ html' = r.body
            /\ UNCHANGED << fallbackReason, outcome >>
  /\ UNCHANGED << url, tier1, tier2, browser, completion, steps >>
  /\ UNCHANGED << mainVars, callVars >>

\* The gate of line 191 with a threshold of 1000.
Tier1AcceptsAbove1000(content) == Len(content) > 1000

\* Line 191
Tier1Accepts(content) == Len(content) > 100

\* Lines 185-194: extraction and the gate of tier 1.
Tier1Extract ==
  /\ pc = "t1_extract"
  /\ calls' = [ calls EXCEPT !.extract = @ + 1 ]
  /\ tier1' = extractTextContent(DocOf(html))
  /\ IF Tier1Accepts(tier1'.content)
       THEN /\ pc' = "done"
            /\ outcome' = Resolved(FetchResult(url, tier1'))
            /\ fallbackReason' = fallbackReason
       ELSE /\ pc' = "launch"
            /\ outcome' = outcome
            /\ fallbackReason' = "insufficient"
  /\ UNCHANGED << url, response, html, tier2, browser, completion, steps >>
  /\ UNCHANGED << mainVars, callVars >>

\* Launch with a failed launch tried again instead of thrown.
LaunchRetries(ok) ==
  /\ pc = "launch"
  /\ calls' = [ calls EXCEPT !.launch = @ + 1 ]
  /\ IF ok
       THEN pc' = "t2_setup" /\ browser' = "open"
       ELSE pc' = "launch" /\ browser' = browser
  /\ UNCHANGED << url, response, fallbackReason, html, tier1, tier2, completion, outcome, steps >>
  /\ UNCHANGED << mainVars, callVars >>

\* Lines 212-235: launch() resolves with a browser or rejects.
Launch(ok) ==
  /\ pc = "launch"
  /\ calls' = [ calls EXCEPT !.launch = @ + 1 ]
  /\ IF ok
       THEN pc' = "t2_setup" /\ browser' = "open" /\ outcome' = outcome
       ELSE pc' = "done" /\ browser' = browser /\ outcome' = Rejected("launch failed")
  /\ UNCHANGED << url, response, fallbackReason, html, tier1, tier2, completion, steps >>
  /\ UNCHANGED << mainVars, callVars >>

\* A step of the try block that throws: control goes to the finally.
Throw(e) ==
  /\ pc' = "t2_finally"
  /\ completion' = [ kind |-> "throw", value |-> NoValue, error |-> e ]

\* Lines 238-282: newPage, setViewport, evaluateOnNewDocument, setUserAgent.
PageSetup(ok) ==
  /\ pc = "t2_setup"
  /\ steps' = Append(steps, "setup")
  /\ IF ok THEN pc' = "t2_goto" /\ completion' = completion
           ELSE Throw("page setup failed")
  /\ UNCHANGED << url, response, fallbackReason, html, tier1, tier2, browser, outcome, calls >>
  /\ UNCHANGED << mainVars, callVars >>

\* Lines 289-292: page.goto, which rejects on a navigation error or timeout.
Goto(ok) ==
  /\ pc = "t2_goto"
  /\ steps' = Append(steps, "goto")
  /\ IF ok THEN pc' = "t2_wait" /\ completion' = completion
           ELSE Throw("Navigation timeout")
  /\ UNCHANGED << url, response, fallbackReason, html, tier1, tier2, browser, outcome, calls >>
  /\ UNCHANGED << mainVars, callVars >>

\* WaitForSelector without the .catch of lines 303-307.
WaitForSelectorFatal(found) ==
  /\ pc = "t2_wait"
  /\ steps' = Append(steps, IF found THEN "selector" ELSE "selector-timeout")
  /\ IF found THEN pc' = "t2_settle" /\ completion' = completion
              ELSE Throw("Waiting for selector failed")
  /\ UNCHANGED << url, response, fallbackReason, html, tier1, tier2, browser, outcome, calls >>
  /\ UNCHANGED << mainVars, callVars >>

\* Lines 299-307: waitForSelector; its rejection is caught.
WaitForSelector(found) ==
  /\ pc = "t2_wait"
  /\ steps' = Append(steps, IF found THEN "selector" ELSE "selector-timeout")
  /\ pc' = "t2_settle"
  /\ UNCHANGED << url, response, fallbackReason, html, tier1, tier2, browser, completion, outcome, calls >>
  /\ UNCHANGED << mainVars, callVars >>

\* Line 310: the fixed delay.
Settle ==
  /\ pc = "t2_settle"
  /\ steps' = Append(steps, "settle")
  /\ pc' = "t2_content"
  /\ UNCHANGED << url, response, fallbackReason, html, tier1, tier2, browser, completion, outcome, calls >>
  /\ UNCHANGED << mainVars, callVars >>

\* Line 317: page.content() gives the rendered document, or rejects.
PageContent(ok, d) ==
  /\ pc = "t2_content"
  /\ steps' = Append(steps, "content")
  /\ IF ok THEN pc' = "t2_extract" /\ html' = d /\ completion' = completion
           ELSE Throw("page.content failed") /\ html' = html
  /\ UNCHANGED << url, response, fallbackReason, tier1, tier2, browser, outcome, calls >>
  /\ UNCHANGED << mainVars, callVars >>

\* Line 331
Tier2Rejects(content) == Len(content) < 100

\* Line 335 returning the htmlContent that tier 1 extracted.
Tier2ReturnMixed(e) == [ FetchResult(url, e) EXCEPT !.htmlContent = tier1.htmlContent ]

\* Line 335
Tier2Return(e) == FetchResult(url, e)

\* Lines 322-335: extraction and the gate of tier 2.
Tier2Extract ==
  /\ pc = "t2_extract"
  /\ steps' = Append(steps, "extract")
  /\ calls' = [ calls EXCEPT !.extract = @ + 1 ]
  /\ tier2' = extractTextContent(DocOf(html))
  /\ IF Tier2Rejects(tier2'.content)
       THEN Throw("Could not extract meaningful content from the page")
       ELSE /\ pc' = "t2_finally"
            /\ completion' = [ kind |-> "return", value |-> Tier2Return(tier2'),
                               error |-> "none" ]
  /\ UNCHANGED << url, response, fallbackReason, html, tier1, browser, outcome >>
  /\ UNCHANGED << mainVars, callVars >>

\* The close of line 337 placed after the return instead of in a finally.
FinallyOnReturnOnly ==
  /\ pc = "t2_finally"
  /\ browser' = IF completion.kind = "return" THEN "closed" ELSE browser
  /\ pc' = "done"
  /\ outcome' = IF completion.kind = "return" THEN Resolved(completion.value)
                                              ELSE Rejected(completion.error)
  /\ UNCHANGED << url, response, fallbackReason, html, tier1, tier2, completion, calls, steps >>
  /\ UNCHANGED << mainVars, callVars >>

\* Lines 336-338: finally { await browser.close() }, then the call settles.
Finally ==
  /\ pc = "t2_finally"
  /\ browser' = "closed"
  /\ pc' = "done"
  /\ outcome' = IF completion.kind = "return" THEN Resolved(completion.value)
                                              ELSE Rejected(completion.error)
  /\ UNCHANGED << url, response, fallbackReason, html, tier1, tier2, completion, calls, steps >>
  /\ UNCHANGED << mainVars, callVars >>

\* main() is not running.
MainIdle ==
  /\ mode = "none"
  /\ urls = << >>
  /\ loopI = 0
  /\ mainPc = "done"
  /\ stage = << >>
  /\ results = << >>
  /\ processingQueue = {}
  /\ waitingQueue = << >>
  /\ running = << >>

FetchInit(u) ==
  /\ url = u
  /\ pc = "start"
  /\ response = NoResponse
  /\ fallbackReason = ""
  /\ html = "none"
  /\ tier1 = NoExtract
  /\ tier2 = NoExtract
  /\ browser = "none"
  /\ completion = [ kind |-> "none", value |-> NoValue, error |-> "none" ]
  /\ outcome = Pending
  /\ calls = NoCalls
  /\ steps = << >>

\* The process-wide functions fetchPdfContent replaces while it parses.
ConsoleMethods ==
  { "console.log", "console.warn", "console.error",
    "process.stdout.write", "process.stderr.write" }

\* The functions in place when the process starts.
Builtin == [ m \in ConsoleMethods |-> << "original", 0 >> ]

\* No call of fetchPdfContent is being followed.
ConsoleIdle ==
  /\ console = Builtin
  /\ originals = << >>
  /\ pdfPc = << >>

\* cleanExtractedContent is not being followed.
CleanIdle ==
  /\ text = << >>
  /\ cleanOnce = << "none" >>
  /\ cleanTwice = << "none" >>

\* extractTextContent is not being followed on its own.
ExtractIdle ==
  /\ document = "none"
  /\ extractPc = "idle"
  /\ extraction = Pending

\* extractThumbnailFromHtml is not being followed.
ThumbIdle ==
  /\ page = [ base |-> "none", meta |-> << >>, imgs |-> << >> ]
  /\ images = [ collected |-> FALSE, list |-> << >> ]
  /\ thumbnail = << "none" >>

\* saveToMarkdown is not being followed.
SaveIdle ==
  /\ title = << >>
  /\ datePrefix = FALSE
  /\ savePc = "idle"
  /\ cleanTitle = << >>
  /\ shortened = << >>
  /\ filename = << >>

Init ==
  /\ \E u \in Urls : FetchInit(u)
  /\ MainIdle
  /\ ConsoleIdle /\ CleanIdle /\ ExtractIdle /\ ThumbIdle /\ SaveIdle

Next ==
  \/ ParseUrl
  \/ \E r \in PdfResponses : PdfFetch(r)
  \/ PdfParse
  \/ \E r \in HtmlResponses : Tier1Fetch(r)
  \/ Tier1Extract
  \/ \E ok \in BOOLEAN : Launch(ok)
  \/ \E ok \in BOOLEAN : PageSetup(ok)
  \/ \E ok \in BOOLEAN : Goto(ok)
  \/ \E found \in BOOLEAN : WaitForSelector(found)
  \/ Settle
  \/ \E ok \in BOOLEAN, d \in DocIds : PageContent(ok, d)
  \/ Tier2Extract
  \/ Finally

Spec == Init /\ [][Next]_vars

(***************************************************************************)
(* index.ts: the batch loop of main; watch.ts: the queue of startWatchMode *)
(*                                                                         *)
(* A pipeline is fetchContent, summarizeContent, saveToMarkdown in turn;   *)
(* each of the three awaits resolves or rejects.                           *)
(***************************************************************************)

\* Bounds: the number of URL arguments, the number of distinct URLs typed.
MaxBatch == 7
NumWatchUrls == 7

UrlNames == << "u1", "u2", "u3", "u4", "u5", "u6", "u7", "u8", "u9", "u10" >>

Stages == << "fetch", "summarize", "save" >>

NextStage(st) == IF st = "fetch" THEN "summarize" ELSE "save"

\* index.ts line 63
maxConcurrent == 5

\* The arguments: n URLs, every third one a repetition.
Arguments(n) == [ k \in 1..n |-> << UrlNames[((k - 1) % 3) + 1] >> ]

\* urls.slice(loopI, loopI + maxConcurrent), as indices of urls.
Batch == { k \in 1..Len(urls) : loopI < k /\ k <= loopI + maxConcurrent }

\* Lines 66-105: a round of the for loop maps the batch to its promises; each
\* runs to its first await.
BatchStart ==
  /\ mode = "batch" /\ mainPc = "loop" /\ loopI < Len(urls)
  /\ stage' = [ k \in 1..Len(urls) |-> IF k \in Batch THEN "fetch" ELSE stage[k] ]
  /\ mainPc' = "await"
  /\ UNCHANGED << mode, urls, loopI, results, processingQueue, waitingQueue, running >>
  /\ UNCHANGED << fetchVars, callVars >>

\* Lines 75-96: an await of pipeline k resolves and the next call is made.
BatchStep(k) ==
  /\ mode = "batch"
  /\ stage[k] \in { "fetch", "summarize" }
  /\ stage' = [ stage EXCEPT ![k] = NextStage(@) ]
  /\ UNCHANGED << mode, urls, loopI, mainPc, results, processingQueue, waitingQueue, running >>
  /\ UNCHANGED << fetchVars, callVars >>

\* Lines 98-104: the last await resolves (return success), or an await
\* rejects and the catch returns the failure.
BatchSettle(k, ok) ==
  /\ mode = "batch"
  /\ stage[k] \in { "fetch", "summarize", "save" }
  /\ ok => stage[k] = "save"
  /\ stage' = [ stage EXCEPT ![k] = IF ok THEN "ok" ELSE "failed" ]
  /\ UNCHANGED << mode, urls, loopI, mainPc, results, processingQueue, waitingQueue, running >>
  /\ UNCHANGED << fetchVars, callVars >>

\* Lines 108-109 pushing only the entries of the URLs that succeeded.
BatchDoneDropsFailures ==
  /\ mode = "batch" /\ mainPc = "await"
  /\ \A k \in Batch : stage[k] \in { "ok", "failed" }
  /\ results' = results \o
       SelectSeq([ n \in 1..Cardinality(Batch) |->
                    [ success |-> stage[loopI + n] = "ok", url |-> urls[loopI + n] ] ],
                 LAMBDA r : r.success)
  /\ loopI' = loopI + maxConcurrent
  /\ mainPc' = "loop"
  /\ UNCHANGED << mode, urls, stage, processingQueue, waitingQueue, running >>
  /\ UNCHANGED << fetchVars, callVars >>

\* Lines 108-109: Promise.all resolves once every promise of the batch has,
\* with the values in the order of the batch.
BatchDone ==
  /\ mode = "batch" /\ mainPc = "await"
  /\ \A k \in Batch : stage[k] \in { "ok", "failed" }
  /\ results' = results \o
       [ n \in 1..Cardinality(Batch) |->
           [ success |-> stage[loopI + n] = "ok", url |-> urls[loopI + n] ] ]
  /\ loopI' = loopI + maxConcurrent
  /\ mainPc' = "loop"
  /\ UNCHANGED << mode, urls, stage, processingQueue, waitingQueue, running >>
  /\ UNCHANGED << fetchVars, callVars >>

\* Lines 112-135: the loop has ended and the summary is printed.
BatchSummary ==
  /\ mode = "batch" /\ mainPc = "loop" /\ ~ (loopI < Len(urls))
  /\ mainPc' = "done"
  /\ UNCHANGED << mode, urls, loopI, stage, results, processingQueue, waitingQueue, running >>
  /\ UNCHANGED << fetchVars, callVars >>

\* watch.ts line 292
watchMaxConcurrent == 5

WatchUrls == { << UrlNames[k] >> : k \in 1..NumWatchUrls }

\* What can be typed: a URL, a URL with white space around it, nothing,
\* white space, something that is not a URL.
Inputs ==
  WatchUrls \cup { << " " >> \o u \o << NL >> : u \in WatchUrls }
    \cup { << >>, << " ", " " >>, << "not a url" >> }

\* processingQueue.size <= maxConcurrent in place of the test of line 355.
HasFreeSlotInclusive(pq) == Cardinality(pq) <= watchMaxConcurrent

\* Lines 301 and 355: processingQueue.size < maxConcurrent
HasFreeSlot(pq) == Cardinality(pq) < watchMaxConcurrent

\* Lines 300-306 taking the newest waiting URL (pop) instead of the oldest.
processNextFromQueueNewest(pq, wq) ==
  IF Len(wq) > 0 /\ HasFreeSlot(pq)
    THEN [ pq |-> pq \cup { wq[Len(wq)] }, wq |-> SubSeq(wq, 1, Len(wq) - 1),
           started |-> wq[Len(wq)] ]
    ELSE [ pq |-> pq, wq |-> wq, started |-> << >> ]

\* Lines 300-306 on the given queues: [pq, wq, started], started the URL
\* whose processUrl call was made (<< >> if none).
processNextFromQueue(pq, wq) ==
  IF Len(wq) > 0 /\ HasFreeSlot(pq)
    THEN [ pq |-> pq \cup { Head(wq) }, wq |-> Tail(wq), started |-> Head(wq) ]
    ELSE [ pq |-> pq, wq |-> wq, started |-> << >> ]

\* Line 349 without the test of the waiting queue.
AlreadyQueuedProcessingOnly(u) == u \in processingQueue

\* Line 349: processingQueue.has(url) || waitingQueue.includes(url)
AlreadyQueued(u) ==
  u \in processingQueue \/ \E n \in 1..Len(waitingQueue) : waitingQueue[n] = u

\* The submit handler pushing every accepted URL onto the waiting queue.
SubmitAlwaysQueues(input) ==
  /\ mode = "watch"
  /\ LET u == trim(input)
     IN  IF u = << >> \/ u \notin WatchUrls \/ AlreadyQueued(u)
           THEN UNCHANGED << processingQueue, waitingQueue, running >>
           ELSE /\ waitingQueue' = Append(waitingQueue, u)
                /\ UNCHANGED << processingQueue, running >>
  /\ UNCHANGED << mode, urls, loopI, mainPc, stage, results >>
  /\ UNCHANGED << fetchVars, callVars >>

\* Lines 332-365: the submit handler.
Submit(input) ==
  /\ mode = "watch"
  /\ LET u == trim(input)
     IN  IF u = << >> \/ u \notin WatchUrls \/ AlreadyQueued(u)
           THEN UNCHANGED << processingQueue, waitingQueue, running >>
           ELSE IF HasFreeSlot(processingQueue)
             THEN /\ running' = [ running EXCEPT ![u] = "fetch" ]
                  /\ processingQueue' = processingQueue \cup { u }
                  /\ waitingQueue' = waitingQueue
             ELSE /\ waitingQueue' = Append(waitingQueue, u)
                  /\ UNCHANGED << processingQueue, running >>
  /\ UNCHANGED << mode, urls, loopI, mainPc, stage, results >>
  /\ UNCHANGED << fetchVars, callVars >>

\* Lines 312-318: an await of processUrl(u) resolves and the next call is made.
WatchStep(u) ==
  /\ mode = "watch"
  /\ running[u] \in { "fetch", "summarize" }
  /\ running' = [ running EXCEPT ![u] = NextStage(@) ]
  /\ UNCHANGED << mode, urls, loopI, mainPc, stage, results, processingQueue, waitingQueue >>
  /\ UNCHANGED << fetchVars, callVars >>

\* processUrl with lines 325-326 at the end of the try block: a pipeline that
\* failed keeps its slot.
WatchSettleFinallyOnSuccess(u, ok) ==
  /\ mode = "watch"
  /\ running[u] \in { "fetch", "summarize", "save" }
  /\ ok => running[u] = "save"
  /\ LET next == IF ok THEN processNextFromQueue(processingQueue \ { u }, waitingQueue)
                  ELSE [ pq |-> processingQueue, wq |-> waitingQueue, started |-> << >> ]
     IN  /\ processingQueue' = next.pq
         /\ waitingQueue' = next.wq
         /\ running' = [ v \in WatchUrls |->
                           IF v = next.started THEN "fetch"
                           ELSE IF v = u THEN "idle" ELSE running[v] ]
  /\ UNCHANGED << mode, urls, loopI, mainPc, stage, results >>
  /\ UNCHANGED << fetchVars, callVars >>

\* Lines 320-328: the last await resolves, or an await rejects and the catch
\* logs it; then the finally block.
WatchSettle(u, ok) ==
  /\ mode = "watch"
  /\ running[u] \in { "fetch", "summarize", "save" }
  /\ ok => running[u] = "save"
  /\ LET next == processNextFromQueue(processingQueue \ { u }, waitingQueue)
     IN  /\ processingQueue' = next.pq
         /\ waitingQueue' = next.wq
         /\ running' = [ v \in WatchUrls |->
                           IF v = next.started THEN "fetch"
                           ELSE IF v = u THEN "idle" ELSE running[v] ]
  /\ UNCHANGED << mode, urls, loopI, mainPc, stage, results >>
  /\ UNCHANGED << fetchVars, callVars >>

\* fetchContent is not being followed.
FetchIdle == FetchInit(CHOOSE u \in Urls : u.id = "article")

MainInit ==
  /\ FetchIdle
  /\ ConsoleIdle /\ CleanIdle /\ ExtractIdle /\ ThumbIdle /\ SaveIdle
  /\ mode \in { "batch", "watch" }
  /\ urls \in IF mode = "batch" THEN { Arguments(n) : n \in 1..MaxBatch } ELSE { << >> }
  /\ loopI = 0
  /\ mainPc = "loop"
  /\ stage = [ k \in 1..Len(urls) |-> "idle" ]
  /\ results = << >>
  /\ processingQueue = {}
  /\ waitingQueue = << >>
  /\ running = IF mode = "watch" THEN [ u \in WatchUrls |-> "idle" ] ELSE << >>

MainNext ==
  \/ BatchStart
  \/ \E k \in 1..Len(urls) : BatchStep(k)
  \/ \E k \in 1..Len(urls), ok \in BOOLEAN : BatchSettle(k, ok)
  \/ BatchDone
  \/ BatchSummary
  \/ \E input \in Inputs : Submit(input)
  \/ \E u \in WatchUrls : WatchStep(u)
  \/ \E u \in WatchUrls, ok \in BOOLEAN : WatchSettle(u, ok)

SpecMain == MainInit /\ [][MainNext]_vars

\* Started pipelines settle: while one runs, an await of processUrl resolves
\* or rejects for the last time.
SpecMainFair ==
  SpecMain /\ WF_vars(\E u \in WatchUrls, ok \in BOOLEAN : WatchSettle(u, ok))

(***************************************************************************)
(* fetcher.ts: fetchPdfContent, several invocations at once                *)
(*                                                                         *)
(* The pipelines of one batch run fetchContent concurrently; for PDF URLs  *)
(* each is in fetchPdfContent.  The promise executor of lines 46-122 runs  *)
(* synchronously up to parseBuffer; the parser emits dataReady or          *)
(* dataError in a later turn of the event loop.                            *)
(***************************************************************************)

\* Bound: the number of PDF URLs in the batch (at most maxConcurrent overlap).
MaxPdfFetches == 3

PdfFetches == 1..MaxPdfFetches

\* Lines 55-61: the five arrow functions invocation f creates.
Noops(f) == [ m \in ConsoleMethods |-> << "noop", f >> ]

\* Lines 34-42: the download answers; a failure or a non-ok status throws.
PdfResponded(f, ok) ==
  /\ pdfPc[f] = "fetch"
  /\ pdfPc' = [ pdfPc EXCEPT ![f] = IF ok THEN "buffer" ELSE "rejected" ]
  /\ UNCHANGED << console, originals >>
  /\ UNCHANGED << fetchVars, mainVars, cleanVars, extractVars, thumbVars, saveVars >>

\* Lines 44-63 and 121: the body has arrived; the executor captures the
\* current functions, replaces them and starts the parser.
PdfSuppress(f) ==
  /\ pdfPc[f] = "buffer"
  /\ originals' = [ originals EXCEPT ![f] = console ]
  /\ console' = Noops(f)
  /\ pdfPc' = [ pdfPc EXCEPT ![f] = "parse" ]
  /\ UNCHANGED << fetchVars, mainVars, cleanVars, extractVars, thumbVars, saveVars >>

\* Lines 65-118: dataReady or dataError; cleanup() puts back what the
\* invocation captured, then the promise settles.
PdfParsed(f, ok) ==
  /\ pdfPc[f] = "parse"
  /\ console' = originals[f]
  /\ pdfPc' = [ pdfPc EXCEPT ![f] = IF ok THEN "resolved" ELSE "rejected" ]
  /\ UNCHANGED originals
  /\ UNCHANGED << fetchVars, mainVars, cleanVars, extractVars, thumbVars, saveVars >>

ConsoleInit ==
  /\ FetchIdle /\ MainIdle
  /\ CleanIdle /\ ExtractIdle /\ ThumbIdle /\ SaveIdle
  /\ console = Builtin
  /\ originals = [ f \in PdfFetches |-> Builtin ]
  /\ pdfPc = [ f \in PdfFetches |-> "fetch" ]

ConsoleNext ==
  \/ \E f \in PdfFetches, ok \in BOOLEAN : PdfResponded(f, ok)
  \/ \E f \in PdfFetches : PdfSuppress(f)
  \/ \E f \in PdfFetches, ok \in BOOLEAN : PdfParsed(f, ok)

SpecConsole == ConsoleInit /\ [][ConsoleNext]_vars

(***************************************************************************)
(* extractor.ts: extractTextContent, one call followed through its awaits  *)
(***************************************************************************)

\* What article-extractor makes of the page.
ReadabilityCases == { "throws", "null", "teaser", "article", "untitled" }

\* The <title> element: none, <title></title>, white space only, padded text.
TitleCases == { "absent", "empty", "blank", "padded" }

\* The content regions: none, a short <article> inside a long <main>, a long
\* <article> inside a longer <main>.
RegionCases == { "none", "main", "article" }

\* The document with the given parts; h, o, p, b: it has an <h1>, an og:title,
\* <p> elements, text in the body.
Document(r, t, h, o, g, p, b) ==
  LET sels   == { contentSelectors[k] : k \in 1..Len(contentSelectors) }
      none   == [ sel \in sels |-> NoElement ]
      story  == Paragraphs("s", 3, 40, << NL >>)
      aside  == Prose("m", 60)
      wide   == aside \o << NL >> \o story
      titled == << "A", " ", "Q", "u", "i", "z" >>
      read   == [ outcome |-> IF r \in { "throws", "null" } THEN r ELSE "article",
                  title |-> IF r \in { "teaser", "article" } THEN titled ELSE << >>,
                  contentLength |-> IF r = "teaser" THEN 300
                                    ELSE IF r \in { "article", "untitled" } THEN 900 ELSE 0,
                  text |-> IF r = "teaser" THEN Paragraphs("t", 2, 45, << NL >>)
                           ELSE IF r \in { "article", "untitled" }
                             THEN Paragraphs("r", 3, 40, << NL >>)
                           ELSE << >> ]
  IN  [ id |-> ToString(<< r, t, h, o, g, p, b >>),
        readability |-> read,
        titleTag |-> IF t = "absent" THEN NoElement
                     ELSE IF t = "empty" THEN Element(<< >>)
                     ELSE IF t = "blank" THEN Element(<< " ", NL, " " >>)
                     ELSE Element(<< " ", NL >> \o titled \o << " " >>),
        h1 |-> IF h THEN Element(<< "H", "e", "a", "d" >>) ELSE NoElement,
        ogTitle |-> IF o THEN Element(<< "O", "g" >>) ELSE NoElement,
        regions |-> IF g = "none" THEN none
                    ELSE IF g = "main"
                      THEN [ none EXCEPT !["article"] = Element(aside), !["main"] = Element(wide) ]
                    ELSE [ none EXCEPT !["article"] = Element(<< " " >> \o story \o << NL >>),
                                       !["main"] = Element(wide) ],
        paragraphs |-> IF p THEN << Prose("p", 20), << " " >> \o Prose("p", 21) \o << NL >>,
                                    Prose("p", 45) >>
                       ELSE << >>,
        body |-> IF b THEN Element(Prose("b", 30) \o << NL >> \o Prose("b", 9)) ELSE Element(<< >>),
        markup |-> [ sel \in sels \cup { "body" } |->
                       IF sel = "body" THEN (IF b \/ p \/ g # "none" THEN 400 ELSE 0)
                       ELSE IF g = "none" THEN -1
                       ELSE IF sel = "main" THEN 300
                       ELSE IF sel = "article" THEN (IF g = "article" THEN 200 ELSE 90)
                       ELSE -1 ] ]

Documents ==
  { Document(r, t, h, o, g, p, b) :
      r \in ReadabilityCases, t \in TitleCases, h \in BOOLEAN, o \in BOOLEAN,
      g \in RegionCases, p \in BOOLEAN, b \in BOOLEAN }

\* ReadabilityStep without the try/catch of lines 256-296.
ReadabilityUncaught ==
  /\ extractPc = "readability"
  /\ IF document.readability.outcome = "throws"
       THEN extraction' = Rejected("extract failed") /\ extractPc' = "done"
       ELSE IF ReadabilityAccepted(document)
         THEN extraction' = Resolved(extractTextContent(document)) /\ extractPc' = "done"
         ELSE extraction' = extraction /\ extractPc' = "fallback"
  /\ UNCHANGED document
  /\ UNCHANGED << fetchVars, mainVars, consoleVars, cleanVars, thumbVars, saveVars >>

\* Lines 254-296: await extract(html); the article is returned when it and
\* its cleaned text are long enough; an exception is caught and dropped.
ReadabilityStep ==
  /\ extractPc = "readability"
  /\ IF ReadabilityAccepted(document)
       THEN extraction' = Resolved(extractTextContent(document)) /\ extractPc' = "done"
       ELSE extraction' = extraction /\ extractPc' = "fallback"
  /\ UNCHANGED document
  /\ UNCHANGED << fetchVars, mainVars, consoleVars, cleanVars, thumbVars, saveVars >>

\* Lines 302-385: the DOM-based extraction.
FallbackStep ==
  /\ extractPc = "fallback"
  /\ extraction' = Resolved(extractTextContent(document))
  /\ extractPc' = "done"
  /\ UNCHANGED document
  /\ UNCHANGED << fetchVars, mainVars, consoleVars, cleanVars, thumbVars, saveVars >>

ExtractInit ==
  /\ FetchIdle /\ MainIdle
  /\ ConsoleIdle /\ CleanIdle /\ ThumbIdle /\ SaveIdle
  /\ document \in Documents
  /\ extractPc = "readability"
  /\ extraction = Pending

ExtractNext == ReadabilityStep \/ FallbackStep

SpecExtract == ExtractInit /\ [][ExtractNext]_vars

(***************************************************************************)
(* extractor.ts: cleanExtractedContent, called on a text and on its result *)
(***************************************************************************)

\* Bound: the number of lines of a text.
MaxLines == 3

\* The lines texts are made of: kept ones (padded to exactly 10, long with a
\* run of dashes, ending in five '!') and dropped ones (short, empty, an
\* advertisement after white space, a run of repeated characters at the
\* start, at the very end, in a line of 99, a UI prompt).
Lines ==
  { << " ", "U+3000" >> \o Prose("H", 10) \o << " ", "\t" >>,
    Prose("L", 95) \o << "-", "-", "-", "-", "-", "-", "-" >>,
    Prose("f", 10) \o << "!", "!", "!", "!", "!" >>,
    Prose("e", 10) \o << "!", "!", "!", "!", "!", "!" >>,
    Prose("n", 93) \o << "-", "-", "-", "-", "-", "-" >>,
    Prose("s", 9),
    << >>,
    << " ", "A", "d", " ", "o", "f", " ", "t", "h", "e", " ", "d", "a", "y", "s" >>,
    << "a", "a", "a", "a", "a", "a", "a", " ", "w", "a", "i", "t", "s" >>,
    << "c", "l", "i", "c", "k", " ", "t", "o", " ", "r", "e", "a", "d" >> }

\* The texts of at most MaxLines lines.
Texts ==
  UNION { { join(lines, << NL >>) : lines \in [ 1..n -> Lines ] } : n \in 0..MaxLines }

NotCalled == << "none" >>

\* cleanExtractedContent(text)
Clean ==
  /\ cleanOnce = NotCalled
  /\ cleanOnce' = cleanExtractedContent(text)
  /\ UNCHANGED << text, cleanTwice >>
  /\ UNCHANGED << fetchVars, mainVars, consoleVars, extractVars, thumbVars, saveVars >>

\* cleanExtractedContent of the value returned
CleanAgain ==
  /\ cleanOnce # NotCalled /\ cleanTwice = NotCalled
  /\ cleanTwice' = cleanExtractedContent(cleanOnce)
  /\ UNCHANGED << text, cleanOnce >>
  /\ UNCHANGED << fetchVars, mainVars, consoleVars, extractVars, thumbVars, saveVars >>

CleanInit ==
  /\ FetchIdle /\ MainIdle
  /\ ConsoleIdle /\ ExtractIdle /\ ThumbIdle /\ SaveIdle
  /\ text \in Texts
  /\ cleanOnce = NotCalled
  /\ cleanTwice = NotCalled

CleanNext == Clean \/ CleanAgain

SpecClean == CleanInit /\ [][CleanNext]_vars

(***************************************************************************)
(* summarizer.ts: extractThumbnailFromHtml                                 *)
(*                                                                         *)
(* A page is what the queries of extractImagesFromHtml see of the HTML:    *)
(*   base : the base URL, [valid, protocol, origin, dir];                  *)
(*   meta : meta selector -> the first matching element,                   *)
(*          [present, content, href];                                      *)
(*   imgs : the <img> elements in document order, [src, dataSrc, width,    *)
(*          height, alt, className, within], within the article selectors  *)
(*          the element matches.                                           *)
(***************************************************************************)

\* Bound: the number of <img> elements of a page.
MaxImgs == 2

metaSelectors ==
  << "meta[property=og:image]", "meta[name=twitter:image]",
     "meta[property=og:image:url]", "link[rel=image_src]" >>

articleSelectors ==
  << "article img", "main img", ".content img", ".article-body img",
     ".post-content img", ".entry-content img", ".story-body img" >>

\* String.prototype.startsWith
startsWith(s, w) == Len(w) <= Len(s) /\ SubSeq(s, 1, Len(w)) = w

\* Lines 406-424; new URL(imageUrl, baseUrl).href for a data: URL, a path
\* from the root and a path from the directory of the base.
convertRelativeToAbsolute(imageUrl, base) ==
  IF startsWith(imageUrl, << "h", "t", "t", "p", ":", "/", "/" >>) \/ startsWith(imageUrl, << "h", "t", "t", "p", "s", ":", "/", "/" >>)
    THEN imageUrl
  ELSE IF ~ base.valid THEN imageUrl
  ELSE IF startsWith(imageUrl, << "/", "/" >>) THEN base.protocol \o imageUrl
  ELSE IF startsWith(imageUrl, << "d", "a", "t", "a", ":" >>) THEN imageUrl
  ELSE IF startsWith(imageUrl, << "/" >>) THEN base.origin \o imageUrl
  ELSE base.dir \o imageUrl

\* Lines 427-472: the predicate of the filter.
KeepsImage(image) ==
  LET lower(t) == [ i \in 1..Len(t) |-> toLowerCase(t[i]) ]
      unwantedUrlPatterns ==
        { << "/", "f", "a", "v", "i", "c", "o", "n" >>, << "/", "i", "c", "o", "n" >>,
          << "/", "l", "o", "g", "o" >>, << "/", "a", "v", "a", "t", "a", "r" >>,
          << "/", "a", "d", "/" >>, << "/", "a", "d", "s", "/" >>,
          << "f", "a", "v", "i", "c", "o", "n", "." >>, << "l", "o", "g", "o", "." >>,
          << "i", "c", "o", "n", "." >>, << "a", "v", "a", "t", "a", "r", "." >>,
          << "s", "p", "r", "i", "t", "e", "." >>,
          << "p", "l", "a", "c", "e", "h", "o", "l", "d", "e", "r" >>,
          << "d", "e", "f", "a", "u", "l", "t" >>, << "t", "h", "u", "m", "b" >>,
          << "m", "i", "n", "i" >> }
      unwantedAltPatterns ==
        { << "i", "c", "o", "n" >>, << "l", "o", "g", "o" >>, << "a", "v", "a", "t", "a", "r" >>,
          << "a", "d" >>, << "a", "d", "v", "e", "r", "t", "i", "s", "e", "m", "e", "n", "t" >>,
          << "s", "p", "o", "n", "s", "o", "r" >>, << "f", "a", "v", "i", "c", "o", "n" >>,
          << "b", "u", "t", "t", "o", "n" >>, << "a", "r", "r", "o", "w" >>,
          << "b", "u", "l", "l", "e", "t" >> }
      unwantedClassPatterns ==
        { << "i", "c", "o", "n" >>, << "l", "o", "g", "o" >>, << "a", "v", "a", "t", "a", "r" >>,
          << "a", "d" >>, << "a", "d", "v", "e", "r", "t", "i", "s", "e", "m", "e", "n", "t" >>,
          << "f", "a", "v", "i", "c", "o", "n" >>, << "s", "p", "r", "i", "t", "e" >>,
          << "b", "u", "t", "t", "o", "n" >> }
  IN  /\ ~ startsWith(lower(image.url), << "d", "a", "t", "a", ":" >>)
      /\ ~ ((image.width # 0 /\ image.width < 100) \/ (image.height # 0 /\ image.height < 100))
      /\ ~ \E pattern \in unwantedUrlPatterns : includes(lower(image.url), pattern)
      /\ ~ \E pattern \in unwantedAltPatterns : includes(lower(image.alt), pattern)
      /\ ~ \E pattern \in unwantedClassPatterns : includes(lower(image.className), pattern)

filterUnwantedImages(candidates) == SelectSeq(candidates, KeepsImage)

\* getAttribute('src') || getAttribute('data-src')
ImageSrc(img) == IF img.src # << >> THEN img.src ELSE img.dataSrc

\* Lines 518-525 and 540-547: the candidate pushed for an <img> element.
Candidate(img, base, source) ==
  [ url |-> convertRelativeToAbsolute(ImageSrc(img), base),
    width |-> img.width, height |-> img.height,
    alt |-> img.alt, className |-> img.className, source |-> source ]

\* Lines 530-550: the remaining elements are pushed unless their URL is
\* already among the candidates.
RECURSIVE AddGeneral(_, _, _)
AddGeneral(candidates, imgs, base) ==
  IF imgs = << >> THEN candidates
  ELSE LET img == Head(imgs)
           absoluteUrl == convertRelativeToAbsolute(ImageSrc(img), base)
           alreadyExists == \E k \in 1..Len(candidates) : candidates[k].url = absoluteUrl
       IN  IF ImageSrc(img) # << >> /\ ~ alreadyExists
             THEN AddGeneral(Append(candidates, Candidate(img, base, "general")), Tail(imgs), base)
             ELSE AddGeneral(candidates, Tail(imgs), base)

\* Lines 475-553
extractImagesFromHtml(pg) ==
  LET metaUrl(k) == IF pg.meta[metaSelectors[k]].content # << >>
                      THEN pg.meta[metaSelectors[k]].content
                      ELSE pg.meta[metaSelectors[k]].href
      metaHits == SelectSeq([ k \in 1..Len(metaSelectors) |-> k ],
                            LAMBDA k : pg.meta[metaSelectors[k]].present /\ metaUrl(k) # << >>)
      metaPart == [ n \in 1..Len(metaHits) |->
                      [ url |-> convertRelativeToAbsolute(metaUrl(metaHits[n]), pg.base),
                        width |-> 0, height |-> 0, alt |-> << >>, className |-> << >>,
                        source |-> "meta" ] ]
      N        == Len(pg.imgs)
      pairs    == [ n \in 1..(Len(articleSelectors) * N) |->
                      [ sel |-> ((n - 1) \div N) + 1, img |-> ((n - 1) % N) + 1 ] ]
      hits     == SelectSeq(pairs, LAMBDA h : /\ articleSelectors[h.sel] \in pg.imgs[h.img].within
                                              /\ ImageSrc(pg.imgs[h.img]) # << >>)
      articlePart == [ n \in 1..Len(hits) |-> Candidate(pg.imgs[hits[n].img], pg.base, "article") ]
  IN  AddGeneral(metaPart \o articlePart, pg.imgs, pg.base)

\* selectBestThumbnail with the larger images of the article preferred to
\* the meta images.
selectBestThumbnailLargeFirst(candidates) ==
  LET from(source) == SelectSeq(candidates, LAMBDA c : c.source = source)
      large(list)  == SelectSeq(list, LAMBDA c : c.width > 300 \/ c.height > 300)
  IN  IF large(from("article")) # << >> THEN large(from("article"))[1].url
      ELSE IF from("meta") # << >> THEN from("meta")[1].url
      ELSE IF from("article") # << >> THEN from("article")[1].url
      ELSE IF large(from("general")) # << >> THEN large(from("general"))[1].url
      ELSE IF from("general") # << >> THEN from("general")[1].url
      ELSE << "undefined" >>

\* Lines 555-590
selectBestThumbnail(candidates) ==
  LET from(source) == SelectSeq(candidates, LAMBDA c : c.source = source)
      large(list)  == SelectSeq(list, LAMBDA c : c.width > 300 \/ c.height > 300)
  IN  IF from("meta") # << >> THEN from("meta")[1].url
      ELSE IF large(from("article")) # << >> THEN large(from("article"))[1].url
      ELSE IF from("article") # << >> THEN from("article")[1].url
      ELSE IF large(from("general")) # << >> THEN large(from("general"))[1].url
      ELSE IF from("general") # << >> THEN from("general")[1].url
      ELSE << "undefined" >>

\* The pages: an og:image (none, a photo, a URL with 'thumb' in it, the URL of
\* the first body image), a twitter:image or none, and up to MaxImgs elements.
Pages ==
  LET base  == [ valid |-> TRUE, protocol |-> << "h", "t", "t", "p", "s", ":" >>,
                 origin |-> << "h", "t", "t", "p", "s", ":", "/", "/", "e", ".", "c", "o" >>, dir |-> << "h", "t", "t", "p", "s", ":", "/", "/", "e", ".", "c", "o", "/", "n", "/" >> ]
      none  == [ present |-> FALSE, content |-> << >>, href |-> << >> ]
      tag(u) == [ present |-> TRUE, content |-> u, href |-> << >> ]
      img(src, dataSrc, w, h, cls, within) ==
        [ src |-> src, dataSrc |-> dataSrc, width |-> w, height |-> h,
          alt |-> << >>, className |-> cls, within |-> within ]
      \* in <article> inside <main>
      figure == img(<< "/", "i", "/", "a", ".", "j", "p", "g" >>, << >>, 200, 150, << >>, { "article img", "main img" })
      \* in <main>, outside the <article>, size unknown
      lead   == img(<< "i", "/", "b", ".", "j", "p", "g" >>, << >>, 0, 0, << >>, { "main img" })
      \* lazy-loaded, outside the content regions, large
      banner == img(<< >>, << "/", "/", "c", ".", "c", "o", "/", "c", ".", "j", "p", "g" >>, 640, 480, << >>, { })
      \* in the <article>, large
      photo  == img(<< "/", "i", "/", "e", ".", "j", "p", "g" >>, << >>, 800, 600, << >>, { "article img", "main img" })
      \* the figure again by its absolute URL, outside the content regions
      again  == img(<< "h", "t", "t", "p", "s", ":", "/", "/", "e", ".", "c", "o", "/", "i", "/", "a", ".", "j", "p", "g" >>, << >>, 200, 150, << >>, { })
      \* a site logo in the <article>
      logo   == img(<< "/", "i", "/", "l", ".", "p", "n", "g" >>, << >>, 120, 120, << "s", "i", "t", "e", "-", "l", "o", "g", "o" >>, { "article img" })
      \* a tracking pixel
      pixel  == img(<< "/", "p", "x", ".", "g", "i", "f" >>, << >>, 1, 1, << >>, { })
      pool   == { figure, lead, banner, photo, again, logo, pixel }
      ogs    == { none, tag(<< "h", "t", "t", "p", "s", ":", "/", "/", "c", ".", "c", "o", "/", "o", "g", ".", "j", "p", "g" >>), tag(<< "/", "t", "h", "u", "m", "b", "s", "/", "o", "g", ".", "j", "p", "g" >>), tag(<< "/", "i", "/", "a", ".", "j", "p", "g" >>) }
      tws    == { none, tag(<< "/", "i", "/", "t", "w", ".", "j", "p", "g" >>) }
  IN  { [ base |-> base,
          meta |-> [ sel \in { metaSelectors[k] : k \in 1..Len(metaSelectors) } |->
                       IF sel = metaSelectors[1] THEN og
                       ELSE IF sel = metaSelectors[2] THEN tw ELSE none ],
          imgs |-> imgs ] :
        og \in ogs, tw \in tws,
        imgs \in UNION { [ 1..n -> pool ] : n \in 0..MaxImgs } }

\* Line 594: extractImagesFromHtml(html, baseUrl)
CollectImages ==
  /\ ~ images.collected
  /\ images' = [ collected |-> TRUE, list |-> extractImagesFromHtml(page) ]
  /\ UNCHANGED << page, thumbnail >>
  /\ UNCHANGED << fetchVars, mainVars, consoleVars, cleanVars, extractVars, saveVars >>

\* Lines 595-596: filterUnwantedImages, selectBestThumbnail, return.
SelectThumbnail ==
  /\ images.collected /\ thumbnail = NotCalled
  /\ thumbnail' = selectBestThumbnail(filterUnwantedImages(images.list))
  /\ UNCHANGED << page, images >>
  /\ UNCHANGED << fetchVars, mainVars, consoleVars, cleanVars, extractVars, saveVars >>

ThumbInit ==
  /\ FetchIdle /\ MainIdle
  /\ ConsoleIdle /\ CleanIdle /\ ExtractIdle /\ SaveIdle
  /\ page \in Pages
  /\ images = [ collected |-> FALSE, list |-> << >> ]
  /\ thumbnail = NotCalled

ThumbNext == CollectImages \/ SelectThumbnail

SpecThumb == ThumbInit /\ [][ThumbNext]_vars

(***************************************************************************)
(* markdown.ts: saveToMarkdown, up to the filename                         *)
(***************************************************************************)

\* The longest inputs pass the limit of the title by this many characters.
MaxExcess == 3

\* Lines 20-22: Buffer.byteLength(str, 'utf8'). A one-character unit is
\* ASCII, 1 byte; the units of U+0080..U+07FF are 2 bytes; a surrogate pair
\* is 4 bytes; a lone surrogate is encoded as U+FFFD and another "U+XXXX"
\* unit as itself, 3 bytes.
getByteLength(str) ==
  LET high == { "U+D83D" }
      low  == { "U+DCF0", "U+DE00" }
      paired(i) ==
        \/ str[i] \in high /\ i < Len(str) /\ str[i + 1] \in low
        \/ str[i] \in low /\ i > 1 /\ str[i - 1] \in high
      bytes(i) ==
        IF Len(str[i]) = 1 THEN 1
        ELSE IF str[i] \in { "U+00A0", "U+00E9" } \/ paired(i) THEN 2
        ELSE 3
  IN  Len(str) + Cardinality({ i \in 1..Len(str) : bytes(i) >= 2 })
               + Cardinality({ i \in 1..Len(str) : bytes(i) >= 3 })

\* Line 26: the character class of the first replace.
InvalidChars == { "<", ">", ":", "\"", "/", "\\", "|", "?", "*" }

\* Lines 25-28: replace(/[<>:"/\\|?*]/g, '_'), replace(/\s+/g, ' '), trim().
CleanedTitle(t) ==
  LET r     == [ i \in 1..Len(t) |-> IF t[i] \in InvalidChars THEN "_" ELSE t[i] ]
      kept  == { i \in 1..Len(r) : ~ (r[i] \in WhiteSpace /\ i > 1 /\ r[i - 1] \in WhiteSpace) }
      at(k) == CHOOSE i \in kept : Cardinality({ j \in kept : j < i }) = k - 1
  IN  trim([ k \in 1..Cardinality(kept) |->
               IF r[at(k)] \in WhiteSpace THEN " " ELSE r[at(k)] ])

\* Lines 17 and 31: the newspaper emoji is U+1F4F0, a surrogate pair;
\* dateStr is now.toISOString().split('T')[0].
prefix(dp) ==
  LET dateStr == << "2", "0", "2", "6", "-", "1", "1", "-", "0", "2" >>
  IN  << "U+D83D", "U+DCF0", " " >> \o (IF dp THEN dateStr \o << "_" >> ELSE << >>)

\* Line 32
suffix == << ".", "m", "d" >>

\* Lines 36-40 without the bytes of the prefix and of the suffix.
maxTitleBytesOfWholeName(dp) == 200

\* Lines 36-40
maxTitleBytes(dp) ==
  LET MAX_FILENAME_BYTES == 200
  IN  MAX_FILENAME_BYTES - (getByteLength(prefix(dp)) + getByteLength(suffix))

\* The strings of one call. titles, the argument translatedTitle: short
\* ones with characters of the class and white space, ASCII and ideographs
\* up to and past the limits of 181 and 192 bytes. shortened, what the call
\* of shortenTitle of line 50 resolves with; the answer of the language model
\* is any string: short, still too long, cut inside a surrogate pair or
\* before white space, empty, or with characters of the class.
SaveInputs ==
  LET Wide(n)  == [ i \in 1..n |-> "U+8A18" ]
      Emoji(n) == [ i \in 1..(2 * n) |-> IF i % 2 = 1 THEN "U+D83D" ELSE "U+DE00" ]
  IN  [ titles |->
          { << " ", "Q", ":", " ", "\t", "a", "/", "b", " ", "<", "o", "k", ">", "?", "U+3000" >>,
            << "a", "\\", "b", "|", "c", "*", "\"", "d", "\"" >>,
            Prose("T", 181) \o << "?" >>,
            Prose("T", 192) \o << "?" >> }
            \cup { Wide(60 + k) : k \in 0..MaxExcess }
            \cup { Wide(64 + k) : k \in 0..MaxExcess },
        shortened |->
          { Prose("S", 20),
            << >>,
            << "a" >> \o Emoji(48),
            Emoji(48),
            Wide(59) \o << " ", " ", "x", "y", "z", "U+8A18", "U+8A18", "U+8A18" >>,
            << "A", "I", ":", " ", "1", "/", "2", " ", "w", "h", "a", "t", "?" >> }
            \cup { Wide(64 + k) : k \in 0..MaxExcess } ]

\* Lines 25-43: the title is cleaned and measured.
SaveClean ==
  /\ savePc = "start"
  /\ cleanTitle' = CleanedTitle(title)
  /\ savePc' = IF getByteLength(cleanTitle') > maxTitleBytes(datePrefix)
                 THEN "shorten" ELSE "name"
  /\ UNCHANGED << title, datePrefix, shortened, filename >>
  /\ UNCHANGED << fetchVars, mainVars, consoleVars, cleanVars, extractVars, thumbVars >>

\* Line 50: the await of shortenTitle resolves, or rejects.
Shorten(ok, t) ==
  /\ savePc = "shorten"
  /\ IF ok THEN cleanTitle' = t /\ shortened' = t /\ savePc' = "truncate"
           ELSE savePc' = "rejected" /\ UNCHANGED << cleanTitle, shortened >>
  /\ UNCHANGED << title, datePrefix, filename >>
  /\ UNCHANGED << fetchVars, mainVars, consoleVars, cleanVars, extractVars, thumbVars >>

\* Lines 53-58: one test of the while loop, with its body or with the trim
\* that follows the loop.
Truncate ==
  /\ savePc = "truncate"
  /\ IF getByteLength(cleanTitle) > maxTitleBytes(datePrefix) /\ Len(cleanTitle) > 0
       THEN /\ cleanTitle' = SubSeq(cleanTitle, 1, Len(cleanTitle) - 1)
            /\ savePc' = savePc
       ELSE /\ cleanTitle' = trim(cleanTitle)
            /\ savePc' = "name"
  /\ UNCHANGED << title, datePrefix, shortened, filename >>
  /\ UNCHANGED << fetchVars, mainVars, consoleVars, cleanVars, extractVars, thumbVars >>

\* Line 64
SaveName ==
  /\ savePc = "name"
  /\ filename' = prefix(datePrefix) \o cleanTitle \o suffix
  /\ savePc' = "write"
  /\ UNCHANGED << title, datePrefix, cleanTitle, shortened >>
  /\ UNCHANGED << fetchVars, mainVars, consoleVars, cleanVars, extractVars, thumbVars >>

\* Lines 104-106: writeFile resolves and the filename is returned, or it
\* rejects.
WriteFile(ok) ==
  /\ savePc = "write"
  /\ savePc' = IF ok THEN "done" ELSE "rejected"
  /\ UNCHANGED << title, datePrefix, cleanTitle, shortened, filename >>
  /\ UNCHANGED << fetchVars, mainVars, consoleVars, cleanVars, extractVars, thumbVars >>

SaveInit ==
  /\ FetchIdle /\ MainIdle
  /\ ConsoleIdle /\ CleanIdle /\ ExtractIdle /\ ThumbIdle
  /\ title \in SaveInputs.titles
  /\ datePrefix \in BOOLEAN
  /\ savePc = "start"
  /\ cleanTitle = << >>
  /\ shortened = << >>
  /\ filename = << >>

SaveNext ==
  \/ SaveClean
  \/ \E ok \in BOOLEAN, t \in SaveInputs.shortened : Shorten(ok, t)
  \/ Truncate
  \/ SaveName
  \/ \E ok \in BOOLEAN : WriteFile(ok)

\* The while loop is synchronous code: it runs on.
SpecSave == SaveInit /\ [][SaveNext]_vars /\ WF_vars(Truncate)

(***************************************************************************)
(* Properties of fetchContent                                              *)
(***************************************************************************)

HtmlPath == calls.get = 1

PdfPath == calls.pdf = 1

NoEscalation == calls.launch = 0 /\ browser = "none" /\ pc \notin { "launch" }

ExtractionFailed == Rejected("Could not extract meaningful content from the page")

\* C1: on the HTML path, when the lightweight GET throws or answers with a
\* non-2xx status the call goes on to launch the browser, and the call never
\* rejects with the error of the GET.
TierOneFailureEscalates ==
  (HtmlPath /\ ~ Ok(response)) =>
    /\ pc = "launch" \/ calls.launch = 1
    /\ outcome.error \notin { "fetch failed", "HTTP error! status" }

\* A 404 in tier 1, and the call resolved through the browser.
TierOneFailureRecovered ==
  HtmlPath /\ response.status = 404 /\ outcome.kind = "resolved" /\ browser = "closed"

\* C2: every result of the HTML path has a plainText longer than 100, and
\* when both tiers extracted at most 100 characters the call rejects with the
\* extraction-failed error.
HtmlResultLongerThan100 ==
  (HtmlPath /\ pc = "done") =>
    /\ outcome.kind = "resolved" => Len(outcome.value.content) > 100
    /\ (calls.extract = 2 /\ Len(tier1.content) <= 100 /\ Len(tier2.content) <= 100)
         => outcome = ExtractionFailed

\* C3: once the call has settled no browser is open, and a browser that was
\* launched has been closed.
BrowserClosedOnSettle ==
  outcome.kind # "pending" =>
    /\ browser # "open"
    /\ steps # << >> => browser = "closed"

\* The extraction-too-short exit of tier 2, browser closed.
TooShortExitClosed ==
  outcome = ExtractionFailed /\ browser = "closed"

\* C4: a result of the HTML path is the extraction of one attempt: of tier 1
\* when the browser was not launched, of tier 2 (the rendered document)
\* otherwise; tier 1 at 40 characters and tier 2 at 500 gives 500.
ResultFromOneAttempt ==
  (HtmlPath /\ outcome.kind = "resolved") =>
    /\ outcome.value = FetchResult(url, extractTextContent(DocOf(html)))
    /\ calls.launch = 0 => outcome.value = FetchResult(url, tier1) /\ html = response.body
    /\ calls.launch = 1 => outcome.value = FetchResult(url, tier2)
    /\ (Len(tier1.content) = 40 /\ Len(tier2.content) = 500)
         => Len(outcome.value.content) = 500

\* Tier 1 extracted 40 characters, the result has the 500 of tier 2.
Escalated40To500 ==
  /\ outcome.kind = "resolved"
  /\ calls.extract = 2 /\ Len(tier1.content) = 40
  /\ Len(outcome.value.content) = 500
  /\ outcome.value.htmlContent.doc = "rendered500"

\* The text of the first <article> of the document tier 1 received.
ArticleText(r) ==
  IF Ok(r) /\ r.body \in DocIds THEN DocOf(r.body).regions["article"].text ELSE << >>

Tier1Alone ==
  /\ NoEscalation
  /\ pc = "done" => outcome = Resolved(FetchResult(url, tier1))

\* C5 as stated: an <article> region of at least 100 characters of text in
\* the lightweight response makes tier 1 return, without the browser.
ArticleOf100Suffices ==
  (HtmlPath /\ Len(trim(ArticleText(response))) >= 100) => Tier1Alone

\* C5, amended: an <article> region whose text is longer than 100 characters
\* and is still longer than 100 characters after cleaning makes tier 1
\* return, without the browser.
CleanArticleAbove100Suffices ==
  (/\ HtmlPath
   /\ Len(trim(ArticleText(response))) > 100
   /\ Len(cleanExtractedContent(ArticleText(response))) > 100) => Tier1Alone

\* The article that cleans to 101 characters, returned by tier 1.
Article101Returned ==
  /\ pc = "done" /\ response.body = "edge101"
  /\ outcome.kind = "resolved" /\ Len(outcome.value.content) = 101
  /\ calls.launch = 0

\* C6: for a string that is not a URL the first step rejects the call with
\* the invalid-URL error, and no request, download or launch is ever made.
InvalidUrlRejectedFirst ==
  ~ url.valid =>
    /\ calls = NoCalls /\ browser = "none"
    /\ pc \in { "start", "done" }
    /\ pc = "done" => outcome = Rejected("Invalid URL provided")

\* "paper.pdf", rejected.
BarePdfRejected ==
  url.id = "bare-pdf" /\ outcome = Rejected("Invalid URL provided")

\* C7: for a URL whose path ends in .pdf (in any case) no HTML GET, no
\* extractTextContent and no launch happens, whatever the response, and the
\* outcome is that of the PDF path.
PdfUrlNeverExtractsHtml ==
  (url.valid /\ endsWith([ i \in 1..Len(url.pathname) |-> toLowerCase(url.pathname[i]) ], DotPdf)) =>
    /\ calls.get = 0 /\ calls.extract = 0 /\ NoEscalation
    /\ outcome.kind = "resolved" => outcome.value = PdfResult(PdfOf(html), url)
    /\ outcome.kind = "rejected" =>
         outcome.error \in { "fetch failed", "HTTP error! status", "PDF parsing error",
                             "PDF text extraction error" }

\* /REPORT.PDF answered with content type text/html, settled.
UpperPdfServedAsHtml ==
  url.id = "upper-pdf" /\ response.contentType = "text/html" /\ pc = "done"

\* C8: on the PDF path a non-2xx answer and a parse error each reject the
\* call, and neither is followed by the HTML GET or the browser.
PdfFailuresFatal ==
  PdfPath =>
    /\ calls.get = 0 /\ calls.extract = 0 /\ NoEscalation
    /\ (response.kind = "response" /\ ~ Ok(response))
         => pc = "done" /\ outcome = Rejected("HTTP error! status")
    /\ (Ok(response) /\ response.body \notin PdfIds /\ pc = "done")
         => outcome = Rejected("PDF parsing error")

\* A payload that is not a PDF, rejected with the parse error.
PdfParseErrorSurfaced ==
  PdfPath /\ response.status = 200 /\ outcome = Rejected("PDF parsing error")

\* C9: a PDF that parses and has no extractable text ends in a rejection.
TextlessPdfRejected ==
  (/\ PdfPath /\ pc = "done" /\ html \in PdfIds
   /\ PdfContent(PdfOf(html).Pages) # Malformed
   /\ trim(PdfContent(PdfOf(html).Pages)) = << >>) => outcome.kind = "rejected"

(***************************************************************************)
(* Properties of the batch loop and of watch mode                          *)
(***************************************************************************)

InFlight(f) == { k \in DOMAIN f : f[k] \in { "fetch", "summarize", "save" } }

\* C10: never more than 5 pipelines in flight: in watch mode the processing
\* map holds at most 5 URLs, which are the pipelines in flight; in batch mode
\* a URL of a later group of 5 has started only when every URL of the groups
\* before it has settled.
AtMostFiveInFlight ==
  /\ mode = "watch" =>
       /\ Cardinality(processingQueue) <= 5
       /\ InFlight(running) = processingQueue
  /\ mode = "batch" =>
       /\ Cardinality(InFlight(stage)) <= 5
       /\ \A j, k \in 1..Len(urls) :
            ((j - 1) \div 5 < (k - 1) \div 5 /\ stage[k] # "idle")
              => stage[j] \in { "ok", "failed" }

\* Five URLs in the map and two waiting.
FiveProcessingTwoWaiting ==
  mode = "watch" /\ Cardinality(processingQueue) = 5 /\ Len(waitingQueue) = 2

(***************************************************************************)
(* Properties of overlapping PDF fetches                                   *)
(***************************************************************************)

PdfSettled(f) == pdfPc[f] \in { "resolved", "rejected" }

\* C11: once every overlapping PDF fetch has settled, console.log,
\* console.warn, console.error, process.stdout.write and process.stderr.write
\* are the original functions again, whatever the interleaving.
ConsoleRestoredOnceSettled ==
  (pdfPc # << >> /\ \A f \in DOMAIN pdfPc : PdfSettled(f)) => console = Builtin

(***************************************************************************)
(* Properties of extractTextContent                                        *)
(***************************************************************************)

Extracted == extractPc = "done" /\ extraction.kind = "resolved"

\* C12: extractTextContent never fails: an exception of the readability
\* strategy is swallowed and the DOM-based fallbacks run; every call settles
\* with a result object (title, content, htmlContent), not with an error.
ExtractionAlwaysResolves ==
  /\ extractPc = "done" =>
       /\ extraction.kind = "resolved"
       /\ DOMAIN extraction.value = { "title", "content", "htmlContent" }
  /\ (extractPc = "fallback" /\ document.readability.outcome = "throws") =>
       extraction.kind = "pending"

\* readability threw and the paragraphs made the result.
ThrowingReadabilityRecovered ==
  /\ Extracted
  /\ document.readability.outcome = "throws"
  /\ document.regions["article"] = NoElement
  /\ extraction.value.content # << >>

\* The first of <title>, <h1>, og:title whose text is not blank, trimmed;
\* the placeholder when there is none.
FirstNonBlankTitle(doc) ==
  LET sources == << doc.titleTag, doc.h1, doc.ogTitle >>
      filled  == { k \in 1..3 : sources[k].present /\ trim(sources[k].text) # << >> }
  IN  IF filled = {} THEN Untitled
      ELSE trim(sources[CHOOSE k \in filled : \A j \in filled : k <= j].text)

\* C13: the title returned by extractTextContent is never empty; on the DOM
\* path it is the first non-empty of the <title> text, the first <h1> text and
\* the og:title content, and 'Untitled' when none is non-empty, blank ones
\* included.
TitleNeverEmpty ==
  Extracted =>
    /\ extraction.value.title # << >>
    /\ ~ ReadabilityAccepted(document) =>
         extraction.value.title = FirstNonBlankTitle(document)

\* The text the strategies choose, in their order: readability, the first
\* qualifying region, the long paragraphs, the body.
ChosenText(doc) ==
  LET read    == doc.readability
      regionOk(k) == /\ doc.regions[contentSelectors[k]].present
                     /\ Len(trim(doc.regions[contentSelectors[k]].text)) > 100
      regions == { k \in 1..Len(contentSelectors) : regionOk(k) }
      long    == { k \in 1..Len(doc.paragraphs) : Len(trim(doc.paragraphs[k])) > 20 }
      pick(k) == trim(doc.paragraphs[k])
      inOrder == SelectSeq([ k \in 1..Len(doc.paragraphs) |-> k ], LAMBDA k : k \in long)
  IN  IF /\ read.outcome = "article" /\ read.contentLength > 100
         /\ Len(cleanExtractedContent(read.text)) > 100
        THEN read.text
      ELSE IF regions # {}
        THEN doc.regions[contentSelectors[CHOOSE k \in regions : \A j \in regions : k <= j]].text
      ELSE IF long # {}
        THEN join([ n \in 1..Len(inOrder) |-> pick(inOrder[n]) ], << NL, NL >>)
      ELSE doc.body.text

\* C20: the plain text comes from the first qualifying strategy in the order
\* readability (cleaned text above 100), first content region above 100 in
\* selector order, paragraphs above 20 joined by blank lines (only when no
\* region qualified), body text (only when still empty), and is passed
\* through the cleaner whichever strategy produced it.
FirstQualifyingStrategy ==
  Extracted =>
    /\ extraction.value.content = trim(cleanExtractedContent(ChosenText(document)))
    /\ ReadabilityAccepted(document) =>
         Len(cleanExtractedContent(document.readability.text)) > 100

\* A page with a qualifying <main> and long paragraphs: the region made the
\* result, the paragraphs were not used.
RegionBeatsParagraphs ==
  /\ Extracted
  /\ ~ ReadabilityAccepted(document)
  /\ Len(trim(document.regions["main"].text)) > 100
  /\ Len(trim(document.regions["article"].text)) <= 100
  /\ ParagraphTexts(document) # << >>
  /\ extraction.value.content = trim(cleanExtractedContent(document.regions["main"].text))
  /\ extraction.value.content # trim(cleanExtractedContent(join(ParagraphTexts(document), << NL, NL >>)))

(***************************************************************************)
(* Properties of cleanExtractedContent                                     *)
(***************************************************************************)

\* C14: cleanExtractedContent is idempotent: cleaning the cleaned output
\* again returns it unchanged.
CleaningIsIdempotent ==
  cleanTwice # NotCalled => cleanTwice = cleanOnce

\* A text that lost a line and kept two was cleaned twice.
CleanedTwiceAfterLoss ==
  /\ cleanTwice # NotCalled
  /\ Len(split(cleanOnce)) >= 3
  /\ \E k \in 1..Len(split(text)) : ~ includes(cleanOnce, trim(split(text)[k]))

\* a is b with some entries left out.
RECURSIVE IsSubsequence(_, _)
IsSubsequence(a, b) ==
  IF a = << >> THEN TRUE
  ELSE IF b = << >> THEN FALSE
  ELSE IF Head(a) = Head(b) THEN IsSubsequence(Tail(a), Tail(b))
  ELSE IsSubsequence(a, Tail(b))

\* C15: no line of the output of cleanExtractedContent has trimmed length
\* below 10; every output line is a trimmed input line, in input order, and
\* one blank line separates it from the next.
OutputLinesAreKeptInputLines ==
  (cleanOnce # NotCalled /\ cleanOnce # << >>) =>
    LET out   == split(cleanOnce)
        input == split(text)
        kept  == [ n \in 1..((Len(out) + 1) \div 2) |-> out[2 * n - 1] ]
    IN  /\ Len(out) % 2 = 1
        /\ \A k \in 1..Len(out) :
              IF k % 2 = 1
                THEN Len(trim(out[k])) >= 10 /\ out[k] = trim(out[k])
                ELSE out[k] = << >>
        /\ IsSubsequence(kept, [ k \in 1..Len(input) |-> trim(input[k]) ])

\* A padded line of exactly 10 was kept after a short line was dropped.
TenKeptNineDropped ==
  /\ cleanOnce # NotCalled
  /\ Len(split(text)) = 3
  /\ Len(trim(split(text)[1])) = 9
  /\ Len(split(text)[2]) > 10 /\ Len(trim(split(text)[2])) = 10
  /\ split(cleanOnce)[1] = trim(split(text)[2])
  /\ Len(split(cleanOnce)) = 3

(***************************************************************************)
(* Properties of extractThumbnailFromHtml                                  *)
(***************************************************************************)

OgImage == page.meta["meta[property=og:image]"]

OgImageUrl == convertRelativeToAbsolute(OgImage.content, page.base)

ThumbnailChosen == images.collected /\ thumbnail # NotCalled

\* C16 as stated: whenever the document has an og:image meta tag with a
\* URL, the thumbnail is that URL resolved against the base URL, whatever
\* <img> elements the body has.
OgImageAlwaysPreferred ==
  (ThumbnailChosen /\ OgImage.present /\ OgImage.content # << >>) =>
    thumbnail = OgImageUrl

\* C16, amended: whenever the first og:image meta tag has a URL that passes
\* the filter for unwanted images, the thumbnail is that URL resolved against
\* the base URL, whatever <img> elements the body has.
WantedOgImagePreferred ==
  (/\ ThumbnailChosen /\ OgImage.present /\ OgImage.content # << >>
   /\ filterUnwantedImages(<< [ url |-> OgImageUrl, width |-> 0, height |-> 0, alt |-> << >>,
                                className |-> << >>, source |-> "meta" ] >>) # << >>) =>
    thumbnail = OgImageUrl

\* An og:image won over a large image in the article.
OgImageBeatsLargePhoto ==
  /\ ThumbnailChosen /\ OgImage.present
  /\ thumbnail = OgImageUrl
  /\ \E k \in 1..Len(images.list) :
       /\ images.list[k].source = "article" /\ images.list[k].width > 300
       /\ images.list[k].url # thumbnail

\* C17: the candidate list of one extraction never holds two candidates
\* with the same resolved URL.
NoDuplicateCandidates ==
  images.collected =>
    \A j, k \in 1..Len(images.list) :
      images.list[j].url = images.list[k].url => j = k

\* The surviving candidates of the article-region tier (article = TRUE) or
\* of the general tier, in the order of the <img> elements in the document.
InDocumentOrder(article) ==
  LET captured(u) == \E k \in 1..Len(images.list) :
                       images.list[k].source # "general" /\ images.list[k].url = u
      resolved(n) == convertRelativeToAbsolute(ImageSrc(page.imgs[n]), page.base)
      member(n) ==
        /\ ImageSrc(page.imgs[n]) # << >>
        /\ IF article THEN page.imgs[n].within # {}
           ELSE /\ ~ captured(resolved(n))
                /\ \A j \in 1..(n - 1) : resolved(j) # resolved(n)
      order == SelectSeq([ n \in 1..Len(page.imgs) |-> n ], member)
  IN  filterUnwantedImages(
        [ n \in 1..Len(order) |->
            Candidate(page.imgs[order[n]], page.base, IF article THEN "article" ELSE "general") ])

\* C18: when no meta candidate survives filtering, the thumbnail comes from
\* the article-region tier if it has a surviving candidate, else from the
\* general tier; within the tier it is the first surviving candidate wider
\* or higher than 300px if there is one, otherwise the first surviving
\* candidate in original document order.
ThumbnailFirstInDocumentOrder ==
  LET survivors == filterUnwantedImages(images.list)
      noMeta == \A k \in 1..Len(survivors) : survivors[k].source # "meta"
      tier   == IF InDocumentOrder(TRUE) # << >> THEN InDocumentOrder(TRUE)
                ELSE InDocumentOrder(FALSE)
      large  == SelectSeq(tier, LAMBDA c : c.width > 300 \/ c.height > 300)
  IN  (ThumbnailChosen /\ noMeta /\ tier # << >>) =>
        thumbnail = IF large # << >> THEN large[1].url ELSE tier[1].url

(***************************************************************************)
(* Properties of the PDF title                                             *)
(***************************************************************************)

\* The first of the first 10 non-empty lines of the text whose trimmed
\* length is from 10 to 200, that is not a number and has neither 'Page '
\* nor a copyright mark; the placeholder when there is none.
TitleFrom10To200(content) ==
  LET lines == SelectSeq(split(content), LAMBDA line : trim(line) # << >>)
      fits(k) ==
        LET t == trim(lines[k])
        IN  /\ k <= 10
            /\ Len(t) >= 10 /\ Len(t) <= 200
            /\ \E i \in 1..Len(t) : t[i] \notin Digits
            /\ ~ includes(t, << "P", "a", "g", "e", " " >>)
            /\ ~ includes(t, << "U+00A9" >>)
      hits == { k \in 1..Len(lines) : fits(k) }
  IN  IF hits = {} THEN PdfDocument
      ELSE trim(lines[CHOOSE k \in hits : \A j \in hits : k <= j])

\* C19: the PDF title is the first line, among the first 10 non-empty lines
\* of the extracted text, whose trimmed length is between 10 and 200, bounds
\* included, and that is no bare page number and holds neither 'Page ' nor a
\* copyright mark; 'PDF Document' when there is no such line.
PdfTitleFrom10To200 ==
  (PdfPath /\ pc = "done" /\ outcome.kind = "resolved") =>
    outcome.value.title = TitleFrom10To200(PdfContent(PdfOf(html).Pages))

\* The line has more than 5 identical characters in a row.
HasRunAbove5(t) ==
  \E i \in 1..(Len(t) - 5) : \A j \in 1..5 : t[i + j] = t[i]

\* The trimmed line is one of the lines out.
KeptByClean(t, out) == \E k \in 1..Len(out) : out[k] = t

\* C21: a trimmed line of 10 to 99 characters that matches no boilerplate or
\* UI pattern is dropped if and only if it has a run of more than 5 identical
\* characters, wherever the run lies; a line of 100 or more characters is
\* never dropped because of repeated characters.
DroppedIffRunAbove5 ==
  cleanOnce # NotCalled =>
    LET input == split(text)
        out   == split(cleanOnce)
    IN  \A k \in 1..Len(input) :
          LET t == trim(input[k])
          IN  (Len(t) >= 10 /\ ~ MatchesExcludePattern(t) /\ ~ isLikelyUIElement(t)) =>
                IF Len(t) <= 99 THEN ~ KeptByClean(t, out) <=> HasRunAbove5(t)
                ELSE KeptByClean(t, out)

\* A line ending in a run of six was dropped, one ending in a run of five and
\* a line of 100 with a run of six were kept.
RunAtEndDropped ==
  /\ cleanOnce # NotCalled
  /\ Len(split(text)) = 3
  /\ LET first == split(text)[1]
         second == split(text)[2]
         third == split(text)[3]
         out == split(cleanOnce)
     IN  /\ Len(first) = 16 /\ first[11] = "!" /\ first[16] = "!"
         /\ ~ KeptByClean(first, out)
         /\ Len(second) = 15 /\ second[15] = "!" /\ KeptByClean(second, out)
         /\ Len(third) >= 100 /\ HasRunAbove5(third) /\ KeptByClean(third, out)

(***************************************************************************)
(* Properties of the browser tier                                          *)
(***************************************************************************)

\* Tier 1 threw, or extracted a plainText of 100 characters or fewer.
TierOneFellShort ==
  /\ calls.get = 1
  /\ \/ response.kind = "throws"
     \/ ~ Ok(response)
     \/ tier1 # NoExtract /\ Len(tier1.content) <= 100

\* C22: one call launches the browser at most once, and exactly when the URL
\* is a valid non-PDF URL and tier 1 threw or extracted 100 characters or
\* fewer; a failure of tier 2 is the outcome of the call, with no retry.
LaunchedOnceWhenNeeded ==
  /\ calls.launch <= 1
  /\ calls.launch = 1 => (url.valid /\ ~ isPdfUrl(url) /\ TierOneFellShort)
  /\ (pc = "done" /\ url.valid /\ ~ isPdfUrl(url) /\ TierOneFellShort) => calls.launch = 1
  /\ (pc = "done" /\ completion.kind = "throw") =>
       /\ outcome = Rejected(completion.error)
       /\ calls.get = 1 /\ calls.extract <= 2

\* Tier 1 extracted 40 characters, the navigation of tier 2 timed out and
\* the call rejected with that error after one launch.
NavigationTimeoutSurfaced ==
  /\ pc = "done" /\ calls.launch = 1
  /\ tier1 # NoExtract /\ Len(tier1.content) = 40
  /\ outcome = Rejected("Navigation timeout")

\* The steps of tier 2 with the selector found, or with its wait timed out.
TierTwoOrder(wait) == << "setup", "goto", wait, "settle", "content", "extract" >>

\* C23: tier 2 navigates, waits for a content selector, lets the page
\* settle, reads the rendered DOM and extracts, in this order; a timeout of
\* the selector wait is not fatal, the later steps still run; a failed
\* navigation ends the call with an error before any DOM read or extraction.
TierTwoStepsInOrder ==
  /\ \E wait \in { "selector", "selector-timeout" } :
       /\ Len(steps) <= 6
       /\ steps = SubSeq(TierTwoOrder(wait), 1, Len(steps))
  /\ (pc = "done" /\ Len(steps) >= 3 /\ steps[3] = "selector-timeout") =>
       /\ Len(steps) >= 5
       /\ completion.error # "page.content failed" => Len(steps) = 6
       /\ completion.kind = "throw" =>
            completion.error \in { "page.content failed",
                                   "Could not extract meaningful content from the page" }
  /\ (pc = "done" /\ steps # << >> /\ steps[Len(steps)] = "goto") =>
       /\ outcome = Rejected("Navigation timeout")
       /\ tier2 = NoExtract

\* The selector wait timed out and the call resolved with the rendered page.
SelectorTimeoutThenSuccess ==
  /\ pc = "done" /\ outcome.kind = "resolved"
  /\ steps = TierTwoOrder("selector-timeout")
  /\ outcome.value.content = tier2.content

(***************************************************************************)
(* Properties of the watch queue                                           *)
(***************************************************************************)

Waiting(u) == \E n \in 1..Len(waitingQueue) : waitingQueue[n] = u

\* C24: in watch mode a URL waits only while all 5 slots are occupied: a
\* non-empty waiting queue implies that the processing map holds 5 URLs.
WaitingOnlyWhenFull ==
  (mode = "watch" /\ waitingQueue # << >>) => Cardinality(processingQueue) = 5

\* One URL waits behind 5 of which one is being saved and one just started.
OneWaitsBehindFive ==
  /\ mode = "watch" /\ Len(waitingQueue) = 1 /\ Cardinality(processingQueue) = 5
  /\ \E u, v \in processingQueue : running[u] = "save" /\ running[v] = "fetch"

\* C25: URLs that waited start in the order of their submission: a URL
\* starts only from the head of the waiting queue while one waits, the URLs
\* that stay keep their order, and a new one is put behind them.
StartsInFifoOrder ==
  [][ mode = "watch" =>
        /\ \A u \in processingQueue' \ processingQueue :
             waitingQueue # << >> =>
               u = Head(waitingQueue) /\ waitingQueue' = Tail(waitingQueue)
        /\ \A i, j \in 1..Len(waitingQueue) :
             (i < j /\ waitingQueue[j] \in processingQueue')
               => waitingQueue[i] \in processingQueue'
        /\ \/ waitingQueue' = waitingQueue
           \/ waitingQueue # << >> /\ waitingQueue' = Tail(waitingQueue)
           \/ \E u \in WatchUrls : waitingQueue' = Append(waitingQueue, u) ]_vars

\* Two URLs wait and a completion starts the one submitted first, leaving
\* the other at the head of the queue.
OlderOfTwoStartsFirst ==
  /\ mode = "watch" /\ Len(waitingQueue) = 2
  /\ \E u \in processingQueue :
       ENABLED ( /\ WatchSettle(u, TRUE)
                 /\ running'[waitingQueue[1]] = "fetch"
                 /\ waitingQueue' = << waitingQueue[2] >> )

\* C26: every completion, successful or failed at any stage, frees its slot
\* and starts the head of the waiting queue; so, when every started pipeline
\* settles, every URL that waits starts processing.
WaitingUrlEventuallyStarts ==
  /\ [][ \A u \in WatchUrls :
           (mode = "watch" /\ u \in processingQueue /\ running'[u] = "idle") =>
             /\ u \notin processingQueue'
             /\ waitingQueue # << >> =>
                  /\ Head(waitingQueue) \in processingQueue'
                  /\ running'[Head(waitingQueue)] = "fetch"
                  /\ waitingQueue' = Tail(waitingQueue) ]_vars
  /\ \A u \in WatchUrls : Waiting(u) ~> (u \in processingQueue)

\* A pipeline is failing at its fetch while two URLs wait, and its failure
\* starts the head of the queue.
FailureStartsWaitingUrl ==
  /\ mode = "watch" /\ Len(waitingQueue) = 2
  /\ \E u \in processingQueue :
       /\ running[u] = "fetch"
       /\ ENABLED ( /\ WatchSettle(u, FALSE)
                    /\ u \notin processingQueue'
                    /\ Head(waitingQueue) \in processingQueue' )

\* C27: no URL is both processing and waiting, no URL waits twice, and
\* submitting a URL that is processing or waiting, an invalid or an empty
\* one changes neither the processing map nor the waiting queue.
NeverPendingTwice ==
  /\ [](mode = "watch" =>
         /\ \A u \in processingQueue : ~ Waiting(u)
         /\ \A i, j \in 1..Len(waitingQueue) :
              waitingQueue[i] = waitingQueue[j] => i = j)
  /\ [][ \A input \in Inputs :
           (Submit(input) /\ (trim(input) \notin WatchUrls \/ AlreadyQueued(trim(input))))
             => UNCHANGED << processingQueue, waitingQueue >> ]_vars

\* With 5 processing and one waiting, each of them typed again with white
\* space around it is a submission that leaves both structures as they are.
PendingUrlRetyped ==
  /\ mode = "watch" /\ Cardinality(processingQueue) = 5 /\ Len(waitingQueue) = 1
  /\ \A u \in processingQueue \cup { Head(waitingQueue) } :
       ENABLED ( /\ Submit(<< " " >> \o u \o << NL >>)
                 /\ UNCHANGED << processingQueue, waitingQueue >> )

(***************************************************************************)
(* Properties of the batch results                                         *)
(***************************************************************************)

Successful == SelectSeq(results, LAMBDA r : r.success)

Failed == SelectSeq(results, LAMBDA r : ~ r.success)

\* C28: in batch mode the results end with one entry per input URL, in input
\* order; a failure is the failed entry of its URL only, every other URL is
\* still processed; successes plus failures are the number of URLs.
OneResultPerUrlInOrder ==
  /\ mode = "batch" =>
       /\ Len(results) <= Len(urls)
       /\ \A k \in 1..Len(results) :
            /\ results[k].url = urls[k]
            /\ results[k].success = (stage[k] = "ok")
  /\ (mode = "batch" /\ mainPc = "done") =>
       /\ Len(results) = Len(urls)
       /\ \A k \in 1..Len(urls) : stage[k] \in { "ok", "failed" }
       /\ Len(Successful) + Len(Failed) = Len(urls)

\* Seven URLs are done: the first failed, the second and the sixth
\* succeeded, the seventh failed.
FailuresRecordedPerUrl ==
  /\ mode = "batch" /\ mainPc = "done" /\ Len(urls) = 7
  /\ ~ results[1].success /\ results[2].success
  /\ results[6].success /\ ~ results[7].success
  /\ Len(Successful) = 5 /\ Len(Failed) = 2

(***************************************************************************)
(* Properties of the filename                                              *)
(***************************************************************************)

\* C29: the filename is never longer than 200 bytes in UTF-8, for every
\* title and whatever shortenTitle resolved with, with or without the date
\* prefix; and the loop that truncates the title ends.
FilenameWithin200Bytes ==
  /\ [](savePc \in { "write", "done" } => getByteLength(filename) <= 200)
  /\ (savePc = "truncate") ~> (savePc # "truncate")

\* A shortened title that was still too long was returned cut in the middle
\* of a surrogate pair, in a filename of exactly 200 bytes.
TruncatedTo200Bytes ==
  /\ savePc = "done" /\ ~ datePrefix
  /\ Len(cleanTitle) < Len(shortened)
  /\ cleanTitle[Len(cleanTitle)] = "U+D83D"
  /\ getByteLength(filename) = 200

\* The part of the filename between the prefix and ".md".
TitlePart == SubSeq(filename, Len(prefix(datePrefix)) + 1, Len(filename) - Len(suffix))

\* C30: the title part of the filename returned holds none of the
\* characters < > : " / \ | ? *, whether the title was short enough or was
\* replaced by the shortened title.
TitlePartHasNoInvalidChar ==
  savePc = "done" => \A i \in 1..Len(TitlePart) : TitlePart[i] \notin InvalidChars

====
